---- MODULE Spec2Model ----
(***************************************************************************)
(* Model of src/duckdb_native.c: the streaming result handles              *)
(* (duckdb_mb_stream, duckdb_mb_chunk), the chunk value decoder and the    *)
(* column binary encoders, together with the process-wide last-error slot. *)
(*                                                                         *)
(* The embedded engine is the environment: what duckdb_fetch_chunk,        *)
(* duckdb_result_error, duckdb_value_is_null ... answer is chosen with \E  *)
(* from small sets.  malloc may fail wherever the code tests its result.   *)
(* Memory is tracked per object as "none" (never allocated), "live" or     *)
(* "freed", with a count of the free() calls made on it.  A read of freed  *)
(* memory yields any of the values the bytes may hold.                     *)
(***************************************************************************)
EXTENDS Integers, Sequences, FiniteSets, TLC

\* ------------------------------------------------------------------ bounds
MaxColumns == 2
MaxChunks == 2
MaxChunkRows == 2
MaxDestroyCalls == 2
MaxCells == 5          \* cells (rows x columns) of a materialised result
MaxValues == 2         \* strings of a list handed to the appender

NULL == "NULL"
\* ghost value: the call did not invoke duckdb_mb_set_error
NoError == "(duckdb_mb_set_error not called)"

VARIABLES
  duckdb_mb_last_error_message, \* the process-wide slot; NULL when empty
  result,        \* the duckdb_result the stream wraps, and the engine behind it
  column_types,  \* the malloc'ed type table: [mem, frees]
  stream,        \* the duckdb_mb_stream handle
  chunks,        \* the duckdb_mb_chunk handles, by number
  validity,      \* engine memory: the validity masks of chunk 1's vectors
  call,          \* ghost: what the last call did
  eos_seen,      \* ghost: a fetch has found the engine exhausted
  delivered,     \* ghost: sum of duckdb_mb_chunk_row_count over returned chunks
  arrow_result,  \* the duckdb_mb_arrow_result handle and the engine's cells
  bytes,         \* the buffer the last column encoder returned
  handles,       \* the statement, appender and config handles of the caller
  list_chunk     \* the data chunk of duckdb_mb_append_list_varchar_chunk

stream_vars == <<duckdb_mb_last_error_message, result, column_types, stream,
                 chunks, validity, call, eos_seen, delivered>>
arrow_vars == <<arrow_result, bytes>>
handle_vars == <<handles, list_chunk>>
vars == <<stream_vars, arrow_vars, handle_vars>>

\* ------------------------------------------------------------- engine types
\* enum duckdb_type, as far as the switch statements of the file name it,
\* plus the composite and decimal types they leave to default:
duckdb_type ==
  {"INVALID", "BOOLEAN", "TINYINT", "SMALLINT", "INTEGER", "BIGINT",
   "UTINYINT", "USMALLINT", "UINTEGER", "UBIGINT", "FLOAT", "DOUBLE",
   "TIMESTAMP", "DATE", "TIME", "INTERVAL", "HUGEINT", "UHUGEINT",
   "VARCHAR", "BLOB", "DECIMAL", "TIMESTAMP_S", "TIMESTAMP_MS",
   "TIMESTAMP_NS", "ENUM", "LIST", "STRUCT", "MAP", "ARRAY", "UUID",
   "UNION", "BIT", "TIME_TZ", "TIMESTAMP_TZ", "TIME_NS"}

\* the switch with a case for DUCKDB_TYPE_DECIMAL
duckdb_mb_is_stream_supported_type_Decimal(type) ==
  type \in {"BOOLEAN", "TINYINT", "SMALLINT", "INTEGER", "BIGINT",
            "UTINYINT", "USMALLINT", "UINTEGER", "UBIGINT", "FLOAT",
            "DOUBLE", "VARCHAR", "BLOB", "DATE", "TIME", "TIME_NS",
            "TIME_TZ", "TIMESTAMP", "TIMESTAMP_TZ", "TIMESTAMP_S",
            "TIMESTAMP_MS", "TIMESTAMP_NS", "INTERVAL", "HUGEINT",
            "UHUGEINT", "UUID", "DECIMAL"}

duckdb_mb_is_stream_supported_type(type) ==
  type \in {"BOOLEAN", "TINYINT", "SMALLINT", "INTEGER", "BIGINT",
            "UTINYINT", "USMALLINT", "UINTEGER", "UBIGINT", "FLOAT",
            "DOUBLE", "VARCHAR", "BLOB", "DATE", "TIME", "TIME_NS",
            "TIME_TZ", "TIMESTAMP", "TIMESTAMP_TZ", "TIMESTAMP_S",
            "TIMESTAMP_MS", "TIMESTAMP_NS", "INTERVAL", "HUGEINT",
            "UHUGEINT", "UUID"}

\* the column types the results of this model are drawn from
ColumnTypeSample == {"INTEGER", "VARCHAR", "DECIMAL"}

\* what duckdb_prepare_error / duckdb_result_error may answer on a failure
EngineMessages == {NULL, "", "engine error"}

\* the slot keeps a fixed text instead of the caller's message
duckdb_mb_set_error_FixedText(message, buf) ==
  IF message = NULL THEN NULL
  ELSE IF ~buf THEN NULL
  ELSE "error"

\* ------------------------------------------------------------ last error
\* buf: whether malloc(len + 1) succeeded.  The old message is freed first,
\* so the slot is empty after a NULL message and after a failed malloc.
duckdb_mb_set_error(message, buf) ==
  IF message = NULL THEN NULL
  ELSE IF ~buf THEN NULL
  ELSE message

\* `error && error[0] ? error : fallback`
ErrorOr(error, fallback) ==
  IF error # NULL /\ error # "" THEN error ELSE fallback

RECURSIVE SumSeq(_)
SumSeq(s) == IF s = <<>> THEN 0 ELSE Head(s) + SumSeq(Tail(s))

\* ------------------------------------------------------- stream creation
\* the loop of duckdb_mb_stream_from_result: ok = FALSE when it returned
\* early on an unsupported column, table = the entries written so far.
RECURSIVE column_types_loop_NoReturn(_, _, _)
column_types_loop_NoReturn(types, col, table) ==
  IF col > Len(types) THEN [ok |-> TRUE, table |-> table]
  ELSE IF ~duckdb_mb_is_stream_supported_type(types[col])
       THEN column_types_loop_NoReturn(types, col + 1, Append(table, "INVALID"))
       ELSE column_types_loop_NoReturn(types, col + 1, Append(table, types[col]))

RECURSIVE column_types_loop(_, _, _)
column_types_loop(types, col, table) ==
  IF col > Len(types) THEN [ok |-> TRUE, table |-> table]
  ELSE IF ~duckdb_mb_is_stream_supported_type(types[col])
       THEN [ok |-> FALSE, table |-> table]
       ELSE column_types_loop(types, col + 1, Append(table, types[col]))

\* duckdb_mb_stream_from_result(result) for a non-null result whose columns
\* have the types `types`; table_ok, stream_ok: the two mallocs succeeded.
\* Answers whether a handle is returned, the fields stored in it, the
\* message handed to duckdb_mb_set_error (NoError if none) and what became
\* of the malloc'ed type table.
duckdb_mb_stream_from_result(types, table_ok, stream_ok) ==
  LET column_count == Len(types)
      loop == column_types_loop(types, 1, <<>>)
      none == [mem |-> "none", frees |-> 0, entries |-> <<>>]
  IN  IF column_count > 0 /\ ~table_ok
      THEN [ok |-> FALSE, column_types |-> NULL, column_count |-> 0,
            error |-> "failed to allocate column types", table |-> none]
      ELSE IF column_count > 0 /\ ~loop.ok
      THEN [ok |-> FALSE, column_types |-> NULL, column_count |-> 0,
            error |-> "streaming query has unsupported column type",
            table |-> [mem |-> "freed", frees |-> 1, entries |-> loop.table]]
      ELSE IF ~stream_ok
      THEN [ok |-> FALSE, column_types |-> NULL, column_count |-> 0,
            error |-> "failed to allocate stream handle",
            table |-> IF column_count > 0
                      THEN [mem |-> "freed", frees |-> 1, entries |-> loop.table]
                      ELSE none]
      ELSE [ok |-> TRUE,
            column_types |-> IF column_count > 0 THEN "table" ELSE NULL,
            column_count |-> column_count,
            error |-> NoError,
            table |-> IF column_count > 0
                      THEN [mem |-> "live", frees |-> 0, entries |-> loop.table]
                      ELSE none]

\* the fields a date or timestamp formatter passes to snprintf; none yet
NoText == [year |-> 0, month |-> 0, day |-> 0, hour |-> 0, minute |-> 0,
           sec |-> 0]

NoCall ==
  [op |-> "none", ret |-> NULL, error |-> NoError, engine |-> "none",
   after_eos |-> FALSE, use_after_free |-> FALSE, col |-> -1, row |-> -1,
   data_read |-> -1, validity_read |-> -1, count |-> -1,
   failed |-> FALSE, engine_error |-> NULL, engine_calls |-> 0,
   slot_before |-> NULL, field_before |-> "",
   error_stored |-> TRUE, text |-> NoText]

\* the record of a call that starts now: what the last-error slot holds
Called == [NoCall EXCEPT !.slot_before = duckdb_mb_last_error_message]

\* a handle with a char error[256] field: the struct's memory, the engine
\* object it wraps and the C string in the field
NoHandle == [mem |-> "none", engine |-> NULL, error |-> ""]

NoHandles ==
  [statement |-> NoHandle, appender |-> NoHandle, config |-> NoHandle]

NoListChunk ==
  [mem |-> "none", appended |-> FALSE, values |-> <<>>, child_data |-> <<>>,
   types_live |-> 0, engine_failed |-> FALSE]

NoStream ==
  [mem |-> "none", result |-> NULL, column_types |-> NULL,
   column_count |-> 0, frees |-> 0]

\* a duckdb_mb_chunk handle; data is the engine's chunk behind chunk->chunk:
\* its row count, its column count and its position in the result
NoChunk ==
  [mem |-> "none", chunk |-> NULL, stream |-> NULL, frees |-> 0,
   destroys |-> 0, data |-> [size |-> 0, ncols |-> 0, index |-> 0]]

\* the chunk lists an engine result may hold: row counts, in fetch order
PendingChunks ==
  UNION {[1..n -> 1..MaxChunkRows] : n \in 0..MaxChunks}

\* a choice the code only looks at when `reached` holds
Choice(reached) == IF reached THEN BOOLEAN ELSE {TRUE}

NoArrowResult ==
  [handle |-> NULL, column_count |-> 0, row_count |-> 0, cells |-> <<>>]

NoBytes == [op |-> "none", col_idx |-> 0, size |-> 0, data |-> <<>>,
            overflow |-> FALSE, rows_read |-> 0]

Init ==
  /\ duckdb_mb_last_error_message = NULL
  /\ \E n \in 0..MaxColumns :
       \E types \in [1..n -> ColumnTypeSample] :
         \E pending \in PendingChunks :
           result = [mem |-> "none", types |-> types, pending |-> pending,
                     rows |-> SumSeq(pending), taken |-> 0, dropped |-> 0,
                     failed |-> FALSE, error |-> NULL,
                     destroys |-> 0, frees |-> 0]
  /\ column_types = [mem |-> "none", frees |-> 0, entries |-> <<>>]
  /\ stream = NoStream
  /\ chunks = [c \in 1..MaxChunks |-> NoChunk]
  /\ validity = <<>>
  /\ call = NoCall
  /\ eos_seen = FALSE
  /\ delivered = 0
  /\ arrow_result = NoArrowResult
  /\ bytes = NoBytes
  /\ handles = NoHandles
  /\ list_chunk = NoListChunk

\* duckdb_mb_query_stream(handle, sql): prepare, execute as a streaming
\* result, then duckdb_mb_stream_from_result; on its failure the result is
\* destroyed and freed.
duckdb_mb_query_stream ==
  /\ stream.mem = "none" /\ result.mem = "none"
  /\ \E handle \in {NULL, "conn"} :
     \E sql_ok \in Choice(handle # NULL) :
     \E prepare_ok \in Choice(handle # NULL /\ sql_ok) :
     \E result_ok \in Choice(handle # NULL /\ sql_ok /\ prepare_ok) :
     \E execute_ok \in Choice(handle # NULL /\ sql_ok /\ prepare_ok /\ result_ok) :
     \E message \in IF (handle # NULL /\ sql_ok /\ ~prepare_ok) \/ ~execute_ok
                    THEN EngineMessages ELSE {NULL} :
     \E table_ok \in Choice(execute_ok /\ Len(result.types) > 0) :
     \E stream_ok \in Choice(execute_ok /\ table_ok) :
       LET made == duckdb_mb_stream_from_result(result.types, table_ok, stream_ok)
           error == IF handle = NULL THEN "connection is null"
                    ELSE IF ~sql_ok THEN "failed to allocate sql buffer"
                    ELSE IF ~prepare_ok
                         THEN ErrorOr(message, "duckdb_prepare failed")
                    ELSE IF ~result_ok THEN "failed to allocate result"
                    ELSE IF ~execute_ok
                         THEN ErrorOr(message, "execute_prepared_streaming failed")
                    ELSE made.error
           executed == handle # NULL /\ sql_ok /\ prepare_ok /\ result_ok
           from_result == executed /\ execute_ok
       IN  \E buf \in Choice(error # NoError) :
           /\ duckdb_mb_last_error_message' =
                IF error = NoError THEN duckdb_mb_last_error_message
                ELSE duckdb_mb_set_error(error, buf)
           /\ call' = [Called EXCEPT !.op = "query_stream", !.error = error,
                         !.error_stored = buf,
                         !.ret = IF error = NoError THEN "stream" ELSE NULL,
                         !.engine = IF from_result THEN "result"
                                    ELSE IF executed THEN "error"
                                    ELSE "none"]
           /\ result' = IF ~executed THEN result
                        ELSE IF error # NoError
                        THEN [result EXCEPT !.mem = "freed", !.destroys = 1,
                                            !.frees = 1]
                        ELSE [result EXCEPT !.mem = "live"]
           /\ column_types' = IF from_result THEN made.table ELSE column_types
           /\ stream' = IF from_result /\ made.ok
                        THEN [mem |-> "live", result |-> "result",
                              column_types |-> made.column_types,
                              column_count |-> made.column_count,
                              frees |-> 0]
                        ELSE stream
  /\ UNCHANGED <<chunks, validity, eos_seen, delivered, arrow_vars, handle_vars>>

\* --------------------------------------------------------------- chunks
duckdb_mb_chunk_row_count_Columns(chunk) ==
  IF chunk.mem = "none" \/ chunk.chunk = NULL THEN 0 ELSE chunk.data.ncols

\* duckdb_mb_chunk_row_count(chunk); a handle with mem "none" is NULL
duckdb_mb_chunk_row_count(chunk) ==
  IF chunk.mem = "none" \/ chunk.chunk = NULL THEN 0 ELSE chunk.data.size

duckdb_mb_chunk_column_count(chunk) ==
  IF chunk.mem = "none" \/ chunk.chunk = NULL THEN 0 ELSE chunk.data.ncols

\* what duckdb_fetch_chunk can do on the result: hand out the next chunk,
\* fail (and keep failing), or find nothing left
EngineFetch ==
  IF result.failed THEN {"error"}
  ELSE IF result.pending = <<>> THEN {"exhausted"}
  ELSE {"chunk", "error"}

\* duckdb_mb_stream_fetch_chunk(stream), called with the caller's handle:
\* NULL while no stream was made, else the live stream.
duckdb_mb_stream_fetch_chunk ==
  /\ stream.mem # "freed"
  /\ LET null == stream.mem = "none" \/ stream.result = NULL IN
     \E engine \in IF null THEN {"none"} ELSE EngineFetch :
     \E message \in IF engine = "error" /\ ~result.failed
                    THEN EngineMessages ELSE {result.error} :
     \E mb_chunk_ok \in Choice(engine = "chunk") :
       LET id == Cardinality({c \in 1..MaxChunks : chunks[c].mem # "none"}) + 1
           error == IF null THEN "stream is null"
                    ELSE IF engine # "chunk"
                         THEN ErrorOr(message, "duckdb_fetch_chunk failed")
                    ELSE IF ~mb_chunk_ok THEN "failed to allocate chunk handle"
                    ELSE NoError
           mb_chunk == [mem |-> "live", chunk |-> "chunk", stream |-> "stream",
                        frees |-> 0, destroys |-> 0,
                        data |-> [size |-> Head(result.pending),
                                  ncols |-> Len(result.types),
                                  index |-> result.taken + 1]]
       IN  \E buf \in Choice(error # NoError) :
           /\ duckdb_mb_last_error_message' =
                IF error = NoError THEN duckdb_mb_last_error_message
                ELSE duckdb_mb_set_error(error, buf)
           /\ call' = [Called EXCEPT !.op = "fetch_chunk", !.error = error,
                         !.error_stored = buf,
                         !.ret = IF error = NoError THEN "chunk" ELSE NULL,
                         !.engine = engine, !.after_eos = eos_seen]
           /\ result' =
                IF engine = "error"
                THEN [result EXCEPT !.failed = TRUE, !.error = message]
                ELSE IF engine = "chunk"
                THEN [result EXCEPT !.pending = Tail(@), !.taken = @ + 1,
                        !.dropped = IF mb_chunk_ok THEN @ ELSE @ + 1]
                ELSE result
           /\ chunks' = IF error = NoError
                        THEN [chunks EXCEPT ![id] = mb_chunk]
                        ELSE chunks
           /\ delivered' = IF error = NoError
                           THEN delivered + duckdb_mb_chunk_row_count(mb_chunk)
                           ELSE delivered
           /\ eos_seen' = (eos_seen \/ engine = "exhausted")
  /\ UNCHANGED <<column_types, stream, validity, arrow_vars, handle_vars>>

\* what a read of a pointer field finds: the field while the handle is
\* live; the old pointer or NULL once the handle's memory was freed
PointerRead(mem, field) == IF mem = "live" THEN {field} ELSE {NULL, field}

\* what a read of stream->column_count finds
ColumnCountRead ==
  IF stream.mem = "live" THEN {stream.column_count}
  ELSE {0, stream.column_count, MaxColumns + 1}

\* duckdb_mb_stream_destroy(stream), called with the caller's handle, which
\* stays what it was after an earlier destroy.
duckdb_mb_stream_destroy ==
  /\ stream.frees < MaxDestroyCalls
  /\ IF stream.mem = "none"
     THEN /\ call' = [Called EXCEPT !.op = "stream_destroy"]
          /\ UNCHANGED <<result, column_types, stream>>
     ELSE \E stream_result \in PointerRead(stream.mem, stream.result),
             stream_column_types \in PointerRead(stream.mem, stream.column_types) :
            /\ call' = [Called EXCEPT !.op = "stream_destroy",
                          !.use_after_free = (stream.mem = "freed")]
            /\ result' = IF stream_result # NULL
                         THEN [result EXCEPT !.mem = "freed",
                                 !.destroys = @ + 1, !.frees = @ + 1]
                         ELSE result
            /\ column_types' = IF stream_column_types # NULL
                               THEN [column_types EXCEPT !.mem = "freed",
                                       !.frees = @ + 1]
                               ELSE column_types
            /\ stream' = [stream EXCEPT !.mem = "freed", !.frees = @ + 1]
  /\ UNCHANGED <<duckdb_mb_last_error_message, chunks, validity, eos_seen,
                 delivered, arrow_vars, handle_vars>>

\* a chunk destroy that also frees the stream's type table
duckdb_mb_chunk_destroy_FreesTable(c) ==
  /\ chunks[c].mem # "none"
  /\ chunks[c].frees < MaxDestroyCalls
  /\ \E engine_chunk \in PointerRead(chunks[c].mem, chunks[c].chunk) :
       /\ chunks' = [chunks EXCEPT ![c].mem = "freed", ![c].frees = @ + 1,
                       ![c].destroys = IF engine_chunk # NULL THEN @ + 1 ELSE @]
       /\ call' = [Called EXCEPT !.op = "chunk_destroy",
                     !.use_after_free = (chunks[c].mem = "freed")]
       /\ column_types' = [column_types EXCEPT !.mem = "freed",
                             !.frees = @ + 1]
  /\ UNCHANGED <<duckdb_mb_last_error_message, result, stream,
                 validity, eos_seen, delivered, arrow_vars, handle_vars>>

\* duckdb_mb_chunk_destroy(chunk), called with handle number c
duckdb_mb_chunk_destroy(c) ==
  /\ chunks[c].mem # "none"
  /\ chunks[c].frees < MaxDestroyCalls
  /\ \E engine_chunk \in PointerRead(chunks[c].mem, chunks[c].chunk) :
       /\ chunks' = [chunks EXCEPT ![c].mem = "freed", ![c].frees = @ + 1,
                       ![c].destroys = IF engine_chunk # NULL THEN @ + 1 ELSE @]
       /\ call' = [Called EXCEPT !.op = "chunk_destroy",
                     !.use_after_free = (chunks[c].mem = "freed")]
  /\ UNCHANGED <<duckdb_mb_last_error_message, result, column_types, stream,
                 validity, eos_seen, delivered, arrow_vars, handle_vars>>

\* duckdb_mb_last_error(): a copy of the slot, or empty bytes for NULL
duckdb_mb_last_error ==
  /\ call' = [Called EXCEPT !.op = "last_error",
                !.ret = IF duckdb_mb_last_error_message = NULL THEN ""
                        ELSE duckdb_mb_last_error_message]
  /\ UNCHANGED <<duckdb_mb_last_error_message, result, column_types, stream,
                 chunks, validity, eos_seen, delivered, arrow_vars,
                 handle_vars>>

Next ==
  \/ duckdb_mb_query_stream
  \/ duckdb_mb_stream_fetch_chunk
  \/ duckdb_mb_last_error

\* opening a stream and fetching from it
Spec == Init /\ [][Next]_vars

\* ------------------------------------------------------------- decoding
\* The state after one chunk was fetched from a stream over a one-chunk
\* result whose columns all have supported types: the stream and chunk 1
\* are live, and the engine holds a validity mask per vector (<<>> when
\* duckdb_vector_get_validity answers NULL, else one bit per row).
ValidityMasks(size) == {<<>>} \cup [1..size -> BOOLEAN]

InitDecode ==
  /\ duckdb_mb_last_error_message = NULL
  /\ \E n \in 0..MaxColumns, size \in 1..MaxChunkRows :
       \E types \in [1..n -> {t \in ColumnTypeSample :
                               duckdb_mb_is_stream_supported_type(t)}] :
         /\ result = [mem |-> "live", types |-> types, pending |-> <<>>,
                      rows |-> size, taken |-> 1, dropped |-> 0,
                      failed |-> FALSE, error |-> NULL,
                      destroys |-> 0, frees |-> 0]
         /\ column_types =
              duckdb_mb_stream_from_result(types, TRUE, TRUE).table
         /\ stream = [mem |-> "live", result |-> "result",
                      column_types |-> IF n > 0 THEN "table" ELSE NULL,
                      column_count |-> n, frees |-> 0]
         /\ chunks = [c \in 1..MaxChunks |->
                        IF c = 1
                        THEN [mem |-> "live", chunk |-> "chunk",
                              stream |-> "stream", frees |-> 0, destroys |-> 0,
                              data |-> [size |-> size, ncols |-> n, index |-> 1]]
                        ELSE NoChunk]
         /\ validity \in [1..n -> ValidityMasks(size)]
         /\ delivered = size
  /\ call = NoCall
  /\ eos_seen = FALSE
  /\ arrow_result = NoArrowResult
  /\ bytes = NoBytes
  /\ handles = NoHandles
  /\ list_chunk = NoListChunk

\* the arguments the caller may pass: C indices, one step past both ends
ColumnArgs == -1..MaxColumns
RowArgs == -1..MaxChunkRows

\* whether row (a C index) of vector col (a C index) of chunk 1 is null
RowIsNull(col, row) ==
  /\ col >= 0 /\ col < chunks[1].data.ncols
  /\ row >= 0 /\ row < chunks[1].data.size
  /\ validity[col + 1] # <<>>
  /\ ~validity[col + 1][row + 1]

\* duckdb_mb_chunk_is_null(chunk, col, row) on the live chunk 1.  The
\* column bound is read through chunk->stream.  A bit read past the chunk's
\* rows is whatever the mask word holds.
duckdb_mb_chunk_is_null(col, row) ==
  /\ chunks[1].mem = "live"
  /\ \E column_count \in ColumnCountRead :
       LET rejected == col < 0 \/ col >= column_count \/ row < 0
           no_vector == col >= chunks[1].data.ncols
           mask == IF rejected \/ no_vector THEN <<>> ELSE validity[col + 1]
       IN  \E bit \in IF mask # <<>> /\ row < chunks[1].data.size
                      THEN {mask[row + 1]}
                      ELSE Choice(mask # <<>>) :
             call' = [Called EXCEPT !.op = "chunk_is_null",
                        !.col = col, !.row = row,
                        !.use_after_free = (stream.mem = "freed"),
                        !.validity_read = IF mask = <<>> THEN -1 ELSE row,
                        !.count = IF rejected THEN 1
                                  ELSE IF mask = <<>> THEN 0
                                  ELSE IF bit THEN 0 ELSE 1]
  /\ UNCHANGED <<duckdb_mb_last_error_message, result, column_types, stream,
                 chunks, validity, eos_seen, delivered, arrow_vars, handle_vars>>

\* what chunk->stream->column_types[col] reads
ColumnTypeRead(col) ==
  IF column_types.mem = "live" /\ col >= 0 /\ col < Len(column_types.entries)
  THEN {column_types.entries[col + 1]}
  ELSE {"INTEGER", "VARCHAR", "INVALID"}

\* duckdb_mb_chunk_value(chunk, col, row) on the live chunk 1: every case
\* of the switch reads ((T *)data)[row]; the default case records an error.
duckdb_mb_chunk_value(col, row) ==
  /\ chunks[1].mem = "live"
  /\ \E column_count \in ColumnCountRead :
       LET rejected == col < 0 \/ col >= column_count \/ row < 0
           no_data == col >= chunks[1].data.ncols
       IN  \E type \in IF rejected \/ no_data THEN {"INVALID"}
                       ELSE ColumnTypeRead(col) :
           LET decoded == ~rejected /\ ~no_data
                          /\ duckdb_mb_is_stream_supported_type(type)
               unsupported == ~rejected /\ ~no_data /\ ~decoded
           IN  \E buf \in Choice(unsupported) :
               /\ call' = [Called EXCEPT !.op = "chunk_value",
                             !.col = col, !.row = row,
                             !.use_after_free = (stream.mem = "freed"),
                             !.data_read = IF decoded THEN row ELSE -1,
                             !.ret = IF decoded THEN "value" ELSE "",
                             !.error = IF unsupported
                                       THEN "unsupported streaming type"
                                       ELSE NoError]
               /\ duckdb_mb_last_error_message' =
                    IF unsupported
                    THEN duckdb_mb_set_error("unsupported streaming type", buf)
                    ELSE duckdb_mb_last_error_message
  /\ UNCHANGED <<result, column_types, stream, chunks, validity, eos_seen,
                 delivered, arrow_vars, handle_vars>>

\* duckdb_mb_chunk_row_count / duckdb_mb_chunk_column_count on chunk 1
ChunkCounts ==
  /\ chunks[1].mem = "live"
  /\ \/ call' = [Called EXCEPT !.op = "chunk_row_count",
                   !.count = duckdb_mb_chunk_row_count(chunks[1])]
     \/ call' = [Called EXCEPT !.op = "chunk_column_count",
                   !.count = duckdb_mb_chunk_column_count(chunks[1])]
  /\ UNCHANGED <<duckdb_mb_last_error_message, result, column_types, stream,
                 chunks, validity, eos_seen, delivered, arrow_vars, handle_vars>>

\* the caller destroys the stream and the chunk once each, in either order,
\* and decodes the chunk for as long as the chunk is live
NextDecode ==
  \/ stream.mem = "live" /\ duckdb_mb_stream_destroy
  \/ chunks[1].mem = "live" /\ duckdb_mb_chunk_destroy(1)
  \/ \E col \in ColumnArgs, row \in RowArgs : duckdb_mb_chunk_is_null(col, row)
  \/ \E col \in ColumnArgs, row \in RowArgs : duckdb_mb_chunk_value(col, row)
  \/ ChunkCounts

SpecDecode == InitDecode /\ [][NextDecode]_vars

\* the caller destroys the stream and the chunk, each up to
\* MaxDestroyCalls times
NextDestroy ==
  \/ duckdb_mb_stream_destroy
  \/ duckdb_mb_chunk_destroy(1)

SpecDestroy == InitDecode /\ [][NextDestroy]_vars

\* ------------------------------------------------- column binary buffers
\* A cell of the materialised result: what the engine's getters answer for
\* it.  int64 and double are the 8 bytes of the value in memory order
\* (little-endian); varchar is the string duckdb_value_varchar allocates
\* (ptr = FALSE: it answers NULL), its chars without the terminating NUL.
NullCell ==
  [is_null |-> TRUE, int64 |-> <<0, 0, 0, 0, 0, 0, 0, 0>>,
   double |-> <<0, 0, 0, 0, 0, 0, 0, 0>>, boolean |-> FALSE,
   varchar |-> [ptr |-> FALSE, chars |-> <<>>]]

CellSample ==
  { NullCell,
    \* 0, 0.0, false, ""
    [is_null |-> FALSE, int64 |-> <<0, 0, 0, 0, 0, 0, 0, 0>>,
     double |-> <<0, 0, 0, 0, 0, 0, 0, 0>>, boolean |-> FALSE,
     varchar |-> [ptr |-> TRUE, chars |-> <<>>]],
    \* 2^32 + 7, 1.5, true, "ab"
    [is_null |-> FALSE, int64 |-> <<7, 0, 0, 0, 1, 0, 0, 0>>,
     double |-> <<0, 0, 0, 0, 0, 0, 248, 63>>, boolean |-> TRUE,
     varchar |-> [ptr |-> TRUE, chars |-> <<97, 98>>]],
    \* -1, -0.0, true, and no string from duckdb_value_varchar
    [is_null |-> FALSE, int64 |-> <<255, 255, 255, 255, 255, 255, 255, 255>>,
     double |-> <<0, 0, 0, 0, 0, 0, 0, 128>>, boolean |-> TRUE,
     varchar |-> [ptr |-> FALSE, chars |-> <<>>]] }

\* the arrow results duckdb_mb_query_arrow can have handed out (NULL after
\* a failure), with the cells of the duckdb_result stored in the handle
ArrowResults ==
  {NoArrowResult} \cup
  UNION { [handle : {"arrow_result"}, column_count : {c}, row_count : {r},
           cells : [1..c -> [1..r -> CellSample]]] :
          <<c, r>> \in {x \in (0..MaxColumns) \X (0..MaxCells) :
                         x[1] * x[2] <= MaxCells /\ (x[1] = 0 => x[2] = 0)} }

\* the engine's getters; col, row are C indices
duckdb_value_is_null(ar, col, row) == ar.cells[col + 1][row + 1].is_null
duckdb_value_int64(ar, col, row) == ar.cells[col + 1][row + 1].int64
duckdb_value_double(ar, col, row) == ar.cells[col + 1][row + 1].double
duckdb_value_boolean(ar, col, row) == ar.cells[col + 1][row + 1].boolean
duckdb_value_varchar(ar, col, row) == ar.cells[col + 1][row + 1].varchar

\* an int32_t in memory, for 0 <= n < 2^31
le32(n) ==
  <<n % 256, (n \div 256) % 256, (n \div 65536) % 256, (n \div 16777216) % 256>>

\* (int32_t)val of an int64_t val: its four low bytes
int32_t(val) == SubSeq(val, 1, 4)

Zeros(n) == [i \in 1..n |-> 0]

RECURSIVE Flatten(_)
Flatten(seqs) == IF seqs = <<>> THEN <<>> ELSE Head(seqs) \o Flatten(Tail(seqs))

\* strlen: the chars before the first NUL
RECURSIVE strlen(_)
strlen(chars) ==
  IF chars = <<>> \/ Head(chars) = 0 THEN 0 ELSE 1 + strlen(Tail(chars))

\* moonbit_make_bytes_raw(size): a byte is -1 until it is written.
\* rows_read: the rows of the engine result the getter has asked for.
moonbit_make_bytes_raw(size) ==
  [size |-> size, data |-> [i \in 1..size |-> -1], overflow |-> FALSE,
   rows_read |-> 0]

\* the getter's loop called duckdb_value_is_null for rows 0 .. n - 1
EngineRows(n, buf) == [buf EXCEPT !.rows_read = n]

\* duckdb_mb_make_bytes("", 0)
EmptyBytes == moonbit_make_bytes_raw(0)

\* the store of `bs` at byte offset `at` of the buffer; a store that
\* falls outside the allocation is remembered in overflow
Store(buf, at, bs) ==
  [buf EXCEPT
     !.data = [i \in 1..buf.size |->
                 IF i - 1 >= at /\ i - 1 < at + Len(bs)
                 THEN bs[i - at] ELSE buf.data[i]],
     !.overflow = (@ \/ at < 0 \/ at + Len(bs) > buf.size)]

\* stores, in program order: a sequence of [at, bytes]
RECURSIVE StoreAll(_, _)
StoreAll(buf, stores) ==
  IF stores = <<>> THEN buf
  ELSE StoreAll(Store(buf, Head(stores).at, Head(stores).bytes), Tail(stores))

\* the early returns without the test of row_count
NoColumn_NoRowCheck(ar, col_idx) ==
  \/ ar.handle = NULL
  \/ col_idx < 0 \/ col_idx >= ar.column_count

\* the early returns every column getter starts with
NoColumn(ar, col_idx) ==
  \/ ar.handle = NULL
  \/ col_idx < 0 \/ col_idx >= ar.column_count \/ ar.row_count <= 0

\* the loop of a getter: the stores of `row(i)` for i = 0 .. row_count - 1
LoopStores(ar, row(_)) == Flatten([i \in 1..ar.row_count |-> row(i - 1)])

\* loop body of duckdb_mb_arrow_get_column_int32_nullable without the
\* placeholder store
int32_nullable_row_NoPlaceholder(ar, col_idx, i) ==
  IF duckdb_value_is_null(ar, col_idx, i)
  THEN << [at |-> 4 + ar.row_count * 4 + i, bytes |-> <<0>>] >>
  ELSE << [at |-> 4 + 4 * i,
           bytes |-> int32_t(duckdb_value_int64(ar, col_idx, i))],
          [at |-> 4 + ar.row_count * 4 + i, bytes |-> <<1>>] >>

\* loop body of duckdb_mb_arrow_get_column_int32_nullable for row i
int32_nullable_row(ar, col_idx, i) ==
  IF duckdb_value_is_null(ar, col_idx, i)
  THEN << [at |-> 4 + 4 * i, bytes |-> Zeros(4)],
          [at |-> 4 + ar.row_count * 4 + i, bytes |-> <<0>>] >>
  ELSE << [at |-> 4 + 4 * i,
           bytes |-> int32_t(duckdb_value_int64(ar, col_idx, i))],
          [at |-> 4 + ar.row_count * 4 + i, bytes |-> <<1>>] >>

duckdb_mb_arrow_get_column_int32_nullable(ar, col_idx) ==
  IF NoColumn(ar, col_idx) THEN EmptyBytes
  ELSE LET row_count == ar.row_count
           total_size == 4 + row_count * 4 + row_count
           row(i) == int32_nullable_row(ar, col_idx, i)
       IN  EngineRows(row_count, StoreAll(Store(moonbit_make_bytes_raw(total_size), 0, le32(row_count)),
                    LoopStores(ar, row)))

duckdb_mb_arrow_get_column_int64_nullable(ar, col_idx) ==
  IF NoColumn(ar, col_idx) THEN EmptyBytes
  ELSE LET row_count == ar.row_count
           total_size == 4 + row_count * 8 + row_count
           row(i) ==
             IF duckdb_value_is_null(ar, col_idx, i)
             THEN << [at |-> 4 + 8 * i, bytes |-> Zeros(8)],
                     [at |-> 4 + row_count * 8 + i, bytes |-> <<0>>] >>
             ELSE << [at |-> 4 + 8 * i,
                      bytes |-> duckdb_value_int64(ar, col_idx, i)],
                     [at |-> 4 + row_count * 8 + i, bytes |-> <<1>>] >>
       IN  EngineRows(row_count, StoreAll(Store(moonbit_make_bytes_raw(total_size), 0, le32(row_count)),
                    LoopStores(ar, row)))

duckdb_mb_arrow_get_column_double_nullable(ar, col_idx) ==
  IF NoColumn(ar, col_idx) THEN EmptyBytes
  ELSE LET row_count == ar.row_count
           total_size == 4 + row_count * 8 + row_count
           row(i) ==
             IF duckdb_value_is_null(ar, col_idx, i)
             THEN << [at |-> 4 + 8 * i, bytes |-> Zeros(8)],
                     [at |-> 4 + row_count * 8 + i, bytes |-> <<0>>] >>
             ELSE << [at |-> 4 + 8 * i,
                      bytes |-> duckdb_value_double(ar, col_idx, i)],
                     [at |-> 4 + row_count * 8 + i, bytes |-> <<1>>] >>
       IN  EngineRows(row_count, StoreAll(Store(moonbit_make_bytes_raw(total_size), 0, le32(row_count)),
                    LoopStores(ar, row)))

duckdb_mb_arrow_get_column_bool_nullable(ar, col_idx) ==
  IF NoColumn(ar, col_idx) THEN EmptyBytes
  ELSE LET row_count == ar.row_count
           total_size == 4 + row_count + row_count
           row(i) ==
             IF duckdb_value_is_null(ar, col_idx, i)
             THEN << [at |-> 4 + i, bytes |-> <<0>>],
                     [at |-> 4 + row_count + i, bytes |-> <<0>>] >>
             ELSE << [at |-> 4 + i,
                      bytes |-> IF duckdb_value_boolean(ar, col_idx, i)
                                THEN <<1>> ELSE <<0>>],
                     [at |-> 4 + row_count + i, bytes |-> <<1>>] >>
       IN  EngineRows(row_count, StoreAll(Store(moonbit_make_bytes_raw(total_size), 0, le32(row_count)),
                    LoopStores(ar, row)))

\* the second pass of the string getters without the terminator
string_row_bytes_NoTerminator(string) ==
  IF string.ptr THEN SubSeq(string.chars, 1, strlen(string.chars)) ELSE <<>>

\* the bytes the second pass of the string getters copies for one row:
\* memcpy of strlen bytes and a NUL, or a lone NUL when strings[i] is NULL
string_row_bytes(string) ==
  IF string.ptr
  THEN SubSeq(string.chars, 1, strlen(string.chars)) \o <<0>>
  ELSE <<0>>

\* the validity loop of duckdb_mb_arrow_get_column_string_nullable with
\* its first store only
string_nullable_validity_FirstStore(string, is_null) ==
  << IF string.ptr \/ is_null THEN 0 ELSE 1 >>

\* the values the validity loop of
\* duckdb_mb_arrow_get_column_string_nullable stores into validity_out[i],
\* in order: the first from strings[i] (still non-NULL after duckdb_free),
\* the second from the re-check of duckdb_value_is_null
string_nullable_validity(string, is_null) ==
  << IF string.ptr \/ is_null THEN 0 ELSE 1,
     IF is_null THEN 0 ELSE 1 >>

\* the allocation of the nullable string getter without the validity bytes
string_nullable_total_size_Dense(total_data_len, row_count) ==
  4 + 4 + total_data_len

\* total_size of duckdb_mb_arrow_get_column_string_nullable
string_nullable_total_size(total_data_len, row_count) ==
  4 + 4 + total_data_len + row_count

\* strings_ok: malloc(row_count * sizeof(char *)) succeeded
duckdb_mb_arrow_get_column_string_nullable(ar, col_idx, strings_ok) ==
  IF NoColumn(ar, col_idx) THEN EmptyBytes
  ELSE IF ~strings_ok THEN EmptyBytes
  ELSE LET row_count == ar.row_count
           strings == [i \in 1..row_count |->
                         IF duckdb_value_is_null(ar, col_idx, i - 1)
                         THEN [ptr |-> FALSE, chars |-> <<>>]
                         ELSE duckdb_value_varchar(ar, col_idx, i - 1)]
           total_data_len ==
             SumSeq([i \in 1..row_count |->
                       IF duckdb_value_is_null(ar, col_idx, i - 1) THEN 0
                       ELSE IF strings[i].ptr THEN strlen(strings[i].chars) + 1
                       ELSE 1])
           total_size == string_nullable_total_size(total_data_len, row_count)
           \* second pass: out_pos advances by the bytes of each row
           copied == [i \in 1..row_count |-> string_row_bytes(strings[i])]
           validity_out(i) ==
             LET stored == string_nullable_validity(
                             strings[i + 1],
                             duckdb_value_is_null(ar, col_idx, i))
             IN  [k \in 1..Len(stored) |->
                    [at |-> 8 + total_data_len + i, bytes |-> <<stored[k]>>]]
       IN  EngineRows(row_count, StoreAll(moonbit_make_bytes_raw(total_size),
                    << [at |-> 0, bytes |-> le32(row_count)],
                       [at |-> 4, bytes |-> le32(total_data_len)],
                       [at |-> 8, bytes |-> Flatten(copied)] >>
                    \o LoopStores(ar, validity_out)))

\* ------------------------------------------------------- dense getters
\* loop body of duckdb_mb_arrow_get_column_int32 storing into out[i]
int32_row_NoHeaderSkip(ar, col_idx, i) ==
  IF duckdb_value_is_null(ar, col_idx, i)
  THEN << [at |-> 4 * i, bytes |-> Zeros(4)] >>
  ELSE << [at |-> 4 * i,
           bytes |-> int32_t(duckdb_value_int64(ar, col_idx, i))] >>

\* loop body of duckdb_mb_arrow_get_column_int32 for row i: out[i + 1]
int32_row(ar, col_idx, i) ==
  IF duckdb_value_is_null(ar, col_idx, i)
  THEN << [at |-> 4 * (i + 1), bytes |-> Zeros(4)] >>
  ELSE << [at |-> 4 * (i + 1),
           bytes |-> int32_t(duckdb_value_int64(ar, col_idx, i))] >>

duckdb_mb_arrow_get_column_int32(ar, col_idx) ==
  IF NoColumn(ar, col_idx) THEN EmptyBytes
  ELSE LET row_count == ar.row_count
           total_size == 4 + row_count * 4
           row(i) == int32_row(ar, col_idx, i)
       IN  EngineRows(row_count, StoreAll(Store(moonbit_make_bytes_raw(total_size), 0, le32(row_count)),
                    LoopStores(ar, row)))

duckdb_mb_arrow_get_column_int64(ar, col_idx) ==
  IF NoColumn(ar, col_idx) THEN EmptyBytes
  ELSE LET row_count == ar.row_count
           total_size == 4 + row_count * 8
           row(i) ==
             IF duckdb_value_is_null(ar, col_idx, i)
             THEN << [at |-> 4 + 8 * i, bytes |-> Zeros(8)] >>
             ELSE << [at |-> 4 + 8 * i,
                      bytes |-> duckdb_value_int64(ar, col_idx, i)] >>
       IN  EngineRows(row_count, StoreAll(Store(moonbit_make_bytes_raw(total_size), 0, le32(row_count)),
                    LoopStores(ar, row)))

duckdb_mb_arrow_get_column_double(ar, col_idx) ==
  IF NoColumn(ar, col_idx) THEN EmptyBytes
  ELSE LET row_count == ar.row_count
           total_size == 4 + row_count * 8
           row(i) ==
             IF duckdb_value_is_null(ar, col_idx, i)
             THEN << [at |-> 4 + 8 * i, bytes |-> Zeros(8)] >>
             ELSE << [at |-> 4 + 8 * i,
                      bytes |-> duckdb_value_double(ar, col_idx, i)] >>
       IN  EngineRows(row_count, StoreAll(Store(moonbit_make_bytes_raw(total_size), 0, le32(row_count)),
                    LoopStores(ar, row)))

duckdb_mb_arrow_get_column_bool(ar, col_idx) ==
  IF NoColumn(ar, col_idx) THEN EmptyBytes
  ELSE LET row_count == ar.row_count
           total_size == 4 + row_count
           row(i) ==
             IF duckdb_value_is_null(ar, col_idx, i)
             THEN << [at |-> 4 + i, bytes |-> <<0>>] >>
             ELSE << [at |-> 4 + i,
                      bytes |-> IF duckdb_value_boolean(ar, col_idx, i)
                                THEN <<1>> ELSE <<0>>] >>
       IN  EngineRows(row_count, StoreAll(Store(moonbit_make_bytes_raw(total_size), 0, le32(row_count)),
                    LoopStores(ar, row)))

\* strings_ok: malloc(row_count * sizeof(char *)) succeeded
duckdb_mb_arrow_get_column_string(ar, col_idx, strings_ok) ==
  IF NoColumn(ar, col_idx) THEN EmptyBytes
  ELSE IF ~strings_ok THEN EmptyBytes
  ELSE LET row_count == ar.row_count
           strings == [i \in 1..row_count |->
                         IF duckdb_value_is_null(ar, col_idx, i - 1)
                         THEN [ptr |-> FALSE, chars |-> <<>>]
                         ELSE duckdb_value_varchar(ar, col_idx, i - 1)]
           total_data_len ==
             SumSeq([i \in 1..row_count |->
                       IF duckdb_value_is_null(ar, col_idx, i - 1) THEN 0
                       ELSE IF strings[i].ptr THEN strlen(strings[i].chars) + 1
                       ELSE 1])
           total_size == 4 + 4 + total_data_len
           \* second pass: out_pos advances by the bytes of each row
           copied == [i \in 1..row_count |-> string_row_bytes(strings[i])]
       IN  EngineRows(row_count, StoreAll(moonbit_make_bytes_raw(total_size),
                    << [at |-> 0, bytes |-> le32(row_count)],
                       [at |-> 4, bytes |-> le32(total_data_len)],
                       [at |-> 8, bytes |-> Flatten(copied)] >>))

\* one call of a column getter on the result
Returned(op, col_idx, buf) ==
  [op |-> op, col_idx |-> col_idx, size |-> buf.size, data |-> buf.data,
   overflow |-> buf.overflow, rows_read |-> buf.rows_read]

get_column_int32_nullable ==
  /\ bytes.op = "none"
  /\ \E col_idx \in ColumnArgs :
       bytes' = Returned("int32_nullable", col_idx,
                  duckdb_mb_arrow_get_column_int32_nullable(arrow_result, col_idx))
  /\ UNCHANGED <<stream_vars, arrow_result, handle_vars>>

get_column_int64_nullable ==
  /\ bytes.op = "none"
  /\ \E col_idx \in ColumnArgs :
       bytes' = Returned("int64_nullable", col_idx,
                  duckdb_mb_arrow_get_column_int64_nullable(arrow_result, col_idx))
  /\ UNCHANGED <<stream_vars, arrow_result, handle_vars>>

get_column_double_nullable ==
  /\ bytes.op = "none"
  /\ \E col_idx \in ColumnArgs :
       bytes' = Returned("double_nullable", col_idx,
                  duckdb_mb_arrow_get_column_double_nullable(arrow_result, col_idx))
  /\ UNCHANGED <<stream_vars, arrow_result, handle_vars>>

get_column_bool_nullable ==
  /\ bytes.op = "none"
  /\ \E col_idx \in ColumnArgs :
       bytes' = Returned("bool_nullable", col_idx,
                  duckdb_mb_arrow_get_column_bool_nullable(arrow_result, col_idx))
  /\ UNCHANGED <<stream_vars, arrow_result, handle_vars>>

get_column_string_nullable ==
  /\ bytes.op = "none"
  /\ \E col_idx \in ColumnArgs :
     \E strings_ok \in Choice(~NoColumn(arrow_result, col_idx)) :
       bytes' = Returned(IF strings_ok THEN "string_nullable"
                         ELSE "string_nullable (no memory)", col_idx,
                  duckdb_mb_arrow_get_column_string_nullable(
                    arrow_result, col_idx, strings_ok))
  /\ UNCHANGED <<stream_vars, arrow_result, handle_vars>>

get_column_int32 ==
  /\ bytes.op = "none"
  /\ \E col_idx \in ColumnArgs :
       bytes' = Returned("int32", col_idx,
                  duckdb_mb_arrow_get_column_int32(arrow_result, col_idx))
  /\ UNCHANGED <<stream_vars, arrow_result, handle_vars>>

get_column_int64 ==
  /\ bytes.op = "none"
  /\ \E col_idx \in ColumnArgs :
       bytes' = Returned("int64", col_idx,
                  duckdb_mb_arrow_get_column_int64(arrow_result, col_idx))
  /\ UNCHANGED <<stream_vars, arrow_result, handle_vars>>

get_column_double ==
  /\ bytes.op = "none"
  /\ \E col_idx \in ColumnArgs :
       bytes' = Returned("double", col_idx,
                  duckdb_mb_arrow_get_column_double(arrow_result, col_idx))
  /\ UNCHANGED <<stream_vars, arrow_result, handle_vars>>

get_column_bool ==
  /\ bytes.op = "none"
  /\ \E col_idx \in ColumnArgs :
       bytes' = Returned("bool", col_idx,
                  duckdb_mb_arrow_get_column_bool(arrow_result, col_idx))
  /\ UNCHANGED <<stream_vars, arrow_result, handle_vars>>

get_column_string ==
  /\ bytes.op = "none"
  /\ \E col_idx \in ColumnArgs :
     \E strings_ok \in Choice(~NoColumn(arrow_result, col_idx)) :
       bytes' = Returned(IF strings_ok THEN "string"
                         ELSE "string (no memory)", col_idx,
                  duckdb_mb_arrow_get_column_string(
                    arrow_result, col_idx, strings_ok))
  /\ UNCHANGED <<stream_vars, arrow_result, handle_vars>>

InitEncode ==
  /\ duckdb_mb_last_error_message = NULL
  /\ result = [mem |-> "none", types |-> <<>>, pending |-> <<>>, rows |-> 0,
               taken |-> 0, dropped |-> 0, failed |-> FALSE, error |-> NULL,
               destroys |-> 0, frees |-> 0]
  /\ column_types = [mem |-> "none", frees |-> 0, entries |-> <<>>]
  /\ stream = NoStream
  /\ chunks = [c \in 1..MaxChunks |-> NoChunk]
  /\ validity = <<>>
  /\ call = NoCall
  /\ eos_seen = FALSE
  /\ delivered = 0
  /\ arrow_result \in ArrowResults
  /\ bytes = NoBytes
  /\ handles = NoHandles
  /\ list_chunk = NoListChunk

NextEncode ==
  \/ get_column_int32_nullable
  \/ get_column_int64_nullable
  \/ get_column_double_nullable
  \/ get_column_bool_nullable
  \/ get_column_string_nullable
  \/ get_column_int32
  \/ get_column_int64
  \/ get_column_double
  \/ get_column_bool
  \/ get_column_string

\* a column getter called on a materialised result
SpecEncode == InitEncode /\ [][NextEncode]_vars

\* --------------------------------------------------- handle error fields
\* sizeof(error) of the statement, appender and config handles
ErrorFieldSize == 256

\* an engine message longer than an error field
LongMessage == "engine error of 300 bytes"

\* what duckdb_prepare_error / duckdb_appender_error may answer
HandleEngineMessages == EngineMessages \cup {LongMessage}

\* strlen of the messages of this model
MessageLen(message) ==
  IF message = LongMessage THEN 300
  ELSE IF message = "engine error" THEN 12
  ELSE 0

\* strncpy(error_field, message, sizeof - 1); error_field[sizeof - 1] = 0:
\* the C string left in the field
strncpy_error(message) ==
  IF MessageLen(message) <= ErrorFieldSize - 1 THEN message
  ELSE "engine error of 300 bytes, first 255 bytes"

\* `if (error) strncpy(...)`: the field after an engine failure
error_field_after(field, error) ==
  IF error # NULL THEN strncpy_error(error) ELSE field

\* ------------------------------------------------- native vector writer
\* the longest string duckdb_string_t stores inline, and its prefix size
InlineLength == 12
PrefixLength == 4

\* a host string of length n
HostBytes(n) == [j \in 1..n |-> 96 + j]

\* values[i] as the caller passes it: ptr = FALSE is a NULL entry
HostStringSample ==
  { [ptr |-> FALSE, bytes |-> <<>>],
    [ptr |-> TRUE, bytes |-> <<>>],
    [ptr |-> TRUE, bytes |-> HostBytes(3)],
    [ptr |-> TRUE, bytes |-> HostBytes(InlineLength)],
    [ptr |-> TRUE, bytes |-> HostBytes(InlineLength + 1)] }

\* bytes of a duckdb_string_t nothing was stored into
Unwritten(n) == [j \in 1..n |-> -1]

\* the loop body with `len < 12` as the inline test
string_t_of_ShortOfTwelve(value, i) ==
  LET len == IF value.ptr THEN Len(value.bytes) ELSE 0 IN
  IF len < InlineLength /\ value.ptr
  THEN [length |-> len,
        inlined |-> value.bytes \o <<0>> \o Unwritten(InlineLength - len - 1),
        ptr |-> 0]
  ELSE IF len >= InlineLength /\ value.ptr
  THEN [length |-> len,
        inlined |-> SubSeq(value.bytes, 1, PrefixLength)
                    \o Unwritten(InlineLength - PrefixLength),
        ptr |-> i + 1]
  ELSE [length |-> 0, inlined |-> <<0>> \o Unwritten(InlineLength - 1),
        ptr |-> 0]

\* the duckdb_string_t the loop of duckdb_mb_append_list_varchar_chunk
\* stores into child_data[i] for values[i].  length and inlined are the
\* fields of value.inlined; in the pointer layout the prefix is stored in
\* the first bytes of the same union and ptr is the caller buffer pointed
\* to (its position in values, 0 when no pointer is stored).
string_t_of(value, i) ==
  LET len == IF value.ptr THEN Len(value.bytes) ELSE 0 IN
  IF len <= InlineLength /\ value.ptr
  THEN [length |-> len,
        inlined |-> value.bytes
                    \o (IF len < InlineLength
                        THEN <<0>> \o Unwritten(InlineLength - len - 1)
                        ELSE <<>>),
        ptr |-> 0]
  ELSE IF len > InlineLength /\ value.ptr
  THEN LET prefix_len == IF len < PrefixLength THEN len ELSE PrefixLength
       IN  [length |-> len,
            inlined |-> SubSeq(value.bytes, 1, prefix_len)
                        \o Unwritten(InlineLength - prefix_len),
            ptr |-> i + 1]
  ELSE [length |-> 0, inlined |-> <<0>> \o Unwritten(InlineLength - 1),
        ptr |-> 0]

\* the chunk at return, destroyed only after a successful append
data_chunk_at_return_KeptOnError(stage, append_ok) ==
  IF stage = "no_chunk" THEN "none"
  ELSE IF stage = "written" /\ ~append_ok THEN "live"
  ELSE "destroyed"

\* what became of the data chunk when duckdb_mb_append_list_varchar_chunk
\* returns: stage is how far the call came ("no_chunk": before or at
\* duckdb_create_data_chunk; "reserve_failed"; "set_size_failed";
\* "written": the strings were stored and the chunk handed to the appender)
data_chunk_at_return(stage, append_ok) ==
  IF stage = "no_chunk" THEN "none" ELSE "destroyed"

\* the answers of the engine calls that return a duckdb_state
duckdb_state == {"DuckDBSuccess", "DuckDBError"}

\* `!state` of C for a duckdb_state: DuckDBSuccess is the enumerator 0
StateIsZero(state) == state = "DuckDBSuccess"

\* duckdb_mb_append_list_varchar_chunk(mb_append, values, count) with
\* count = the length of values.  duckdb_list_vector_reserve and
\* duckdb_list_vector_set_size answer a duckdb_state, which the code tests
\* with `!`.
duckdb_mb_append_list_varchar_chunk ==
  /\ handles.appender.mem # "freed"
  /\ LET null == handles.appender.mem = "none"
                 \/ handles.appender.engine = NULL IN
     \E varchar_type \in Choice(~null) :
     \E list_type \in Choice(~null /\ varchar_type) :
     \E chunk \in Choice(~null /\ varchar_type /\ list_type) :
     LET created == ~null /\ varchar_type /\ list_type /\ chunk IN
     \E reserve \in IF created THEN duckdb_state ELSE {"DuckDBError"} :
     \E set_size \in IF created /\ ~StateIsZero(reserve)
                     THEN duckdb_state ELSE {"DuckDBError"} :
     LET looped == created /\ ~StateIsZero(reserve) /\ ~StateIsZero(set_size)
     IN
     \E append_ok \in Choice(looped) :
     \E error \in IF append_ok THEN {NULL} ELSE HandleEngineMessages :
     \* values is read by the write loop only
     \E count \in IF looped THEN 0..MaxValues ELSE {0} :
     \E values \in [1..count -> HostStringSample] :
       LET stage == IF ~created THEN "no_chunk"
                    ELSE IF StateIsZero(reserve) THEN "reserve_failed"
                    ELSE IF StateIsZero(set_size) THEN "set_size_failed"
                    ELSE "written"
           field == handles.appender.error
           message == IF null THEN field
                      ELSE IF ~varchar_type THEN "failed to create varchar type"
                      ELSE IF ~list_type THEN "failed to create list type"
                      ELSE IF ~chunk THEN "failed to create data chunk"
                      ELSE IF stage = "reserve_failed"
                           THEN "failed to reserve list space"
                      ELSE IF stage = "set_size_failed"
                           THEN "failed to set list size"
                      ELSE IF ~append_ok THEN error_field_after(field, error)
                      ELSE field
       IN  /\ handles' = [handles EXCEPT !.appender.error = message]
           /\ list_chunk' =
                [mem |-> data_chunk_at_return(stage, append_ok),
                 appended |-> (stage = "written"),
                 values |-> values,
                 child_data |-> IF stage = "written"
                                THEN [i \in 1..count |->
                                        string_t_of(values[i], i - 1)]
                                ELSE <<>>,
                 \* the two logical types are destroyed on the failure
                 \* paths up to set_size and left alive after the append
                 types_live |-> IF stage = "written" THEN 2 ELSE 0,
                 \* whether an engine call of this call reported failure
                 engine_failed |->
                   /\ ~null
                   /\ \/ ~created
                      \/ reserve = "DuckDBError"
                      \/ (stage # "reserve_failed" /\ set_size = "DuckDBError")
                      \/ (stage = "written" /\ ~append_ok)]
           /\ call' = [Called EXCEPT !.op = "append_list_varchar_chunk",
                         !.count = IF stage = "written" /\ append_ok
                                   THEN 1 ELSE 0,
                         !.failed = ~(stage = "written" /\ append_ok),
                         !.engine = stage,
                         !.engine_error = error,
                         !.engine_calls = IF stage = "written" THEN 1 ELSE 0,
                         !.field_before = field]
  /\ UNCHANGED <<duckdb_mb_last_error_message, result, column_types, stream,
                 chunks, validity, eos_seen, delivered, arrow_vars>>

\* the caller holds an appender (or NULL after a failed
\* duckdb_mb_appender_create) and no list was appended yet
InitAppend ==
  /\ duckdb_mb_last_error_message = NULL
  /\ result = [mem |-> "none", types |-> <<>>, pending |-> <<>>, rows |-> 0,
               taken |-> 0, dropped |-> 0, failed |-> FALSE, error |-> NULL,
               destroys |-> 0, frees |-> 0]
  /\ column_types = [mem |-> "none", frees |-> 0, entries |-> <<>>]
  /\ stream = NoStream
  /\ chunks = [c \in 1..MaxChunks |-> NoChunk]
  /\ validity = <<>>
  /\ call = NoCall
  /\ eos_seen = FALSE
  /\ delivered = 0
  /\ arrow_result = NoArrowResult
  /\ bytes = NoBytes
  /\ handles \in {NoHandles,
                  [NoHandles EXCEPT !.appender =
                     [mem |-> "live", engine |-> "appender", error |-> ""]]}
  /\ list_chunk = NoListChunk

NextAppend == duckdb_mb_append_list_varchar_chunk

\* lists appended through the data chunk writer
SpecAppend == InitAppend /\ [][NextAppend]_vars

\* ------------------------------------------------------- handle operations
\* `error && error[0] ? strncpy(field, error, size - 1) : strncpy(field,
\* fallback, size)`: the field of a handle whose creation failed
creation_error(error, fallback) ==
  IF error # NULL /\ error # "" THEN strncpy_error(error) ELSE fallback

\* duckdb_mb_query(handle, sql)
duckdb_mb_query ==
  /\ \E handle \in {NULL, "conn"} :
     \E sql_ok \in Choice(handle # NULL) :
     \E result_ok \in Choice(handle # NULL /\ sql_ok) :
     \E query_ok \in Choice(handle # NULL /\ sql_ok /\ result_ok) :
     \E message \in IF query_ok THEN {NULL} ELSE HandleEngineMessages :
       LET queried == handle # NULL /\ sql_ok /\ result_ok
           error == IF handle = NULL THEN "connection is null"
                    ELSE IF ~sql_ok THEN "failed to allocate sql buffer"
                    ELSE IF ~result_ok THEN "failed to allocate result"
                    ELSE IF ~query_ok
                         THEN (IF message = NULL THEN "duckdb_query failed"
                               ELSE message)
                    ELSE NoError
       IN  \E buf \in Choice(error # NoError) :
           /\ duckdb_mb_last_error_message' =
                IF error = NoError THEN duckdb_mb_last_error_message
                ELSE duckdb_mb_set_error(error, buf)
           /\ call' = [Called EXCEPT !.op = "query", !.error = error,
                         !.error_stored = buf,
                         !.ret = IF error = NoError THEN "result" ELSE NULL,
                         !.failed = (error # NoError),
                         !.engine = IF queried /\ ~query_ok THEN "error"
                                    ELSE IF queried THEN "result"
                                    ELSE "none",
                         !.engine_error = message,
                         !.engine_calls = IF queried THEN 1 ELSE 0]
  /\ UNCHANGED <<result, column_types, stream, chunks, validity, eos_seen,
                 delivered, arrow_vars, handle_vars>>

\* duckdb_mb_prepare(handle, sql); the caller holds no statement
duckdb_mb_prepare ==
  /\ handles.statement.mem # "live"
  /\ \E handle \in {NULL, "conn"} :
     \E sql_ok \in Choice(handle # NULL) :
     \E stmt_ok \in Choice(handle # NULL /\ sql_ok) :
     \E prepare_ok \in Choice(handle # NULL /\ sql_ok /\ stmt_ok) :
     \E error \in IF prepare_ok THEN {NULL} ELSE HandleEngineMessages :
       LET prepared == handle # NULL /\ sql_ok /\ stmt_ok IN
       /\ handles' =
            IF ~prepared THEN handles
            ELSE IF ~prepare_ok
            THEN [handles EXCEPT !.statement =
                    [mem |-> "freed", engine |-> NULL,
                     error |-> creation_error(error, "duckdb_prepare failed")]]
            ELSE [handles EXCEPT !.statement =
                    [mem |-> "live", engine |-> "stmt", error |-> ""]]
       /\ call' = [Called EXCEPT !.op = "prepare",
                     !.ret = IF prepared /\ prepare_ok THEN "stmt" ELSE NULL,
                     !.failed = ~(prepared /\ prepare_ok),
                     !.engine = IF prepared /\ ~prepare_ok THEN "error"
                                ELSE IF prepared THEN "stmt" ELSE "none",
                     !.engine_error = error,
                     !.engine_calls = IF prepared THEN 1 ELSE 0,
                     !.field_before = handles.statement.error]
  /\ UNCHANGED <<duckdb_mb_last_error_message, result, column_types, stream,
                 chunks, validity, eos_seen, delivered, arrow_vars,
                 list_chunk>>

\* duckdb_mb_bind_int(mb_stmt, index, value) on the statement the caller
\* holds (NULL when it holds none)
duckdb_mb_bind_int ==
  /\ LET null == handles.statement.mem # "live"
                 \/ handles.statement.engine = NULL IN
     \E bind_ok \in Choice(~null) :
     \E error \in IF null \/ bind_ok THEN {NULL} ELSE HandleEngineMessages :
       /\ handles' =
            IF null \/ bind_ok THEN handles
            ELSE [handles EXCEPT !.statement.error =
                    error_field_after(handles.statement.error, error)]
       /\ call' = [Called EXCEPT !.op = "bind_int",
                     !.count = IF ~null /\ bind_ok THEN 1 ELSE 0,
                     !.failed = (null \/ ~bind_ok),
                     !.engine = IF null THEN "none"
                                ELSE IF bind_ok THEN "bound" ELSE "error",
                     !.engine_error = error,
                     !.engine_calls = IF null THEN 0 ELSE 1,
                     !.field_before = handles.statement.error]
  /\ UNCHANGED <<duckdb_mb_last_error_message, result, column_types, stream,
                 chunks, validity, eos_seen, delivered, arrow_vars,
                 list_chunk>>

\* duckdb_mb_appender_create(handle, schema, table); the caller holds no
\* appender
duckdb_mb_appender_create ==
  /\ handles.appender.mem # "live"
  /\ \E handle \in {NULL, "conn"} :
     \E schema_ok \in Choice(handle # NULL) :
     \E table_ok \in Choice(handle # NULL /\ schema_ok) :
     \E append_ok \in Choice(handle # NULL /\ schema_ok /\ table_ok) :
     \E create_ok \in Choice(handle # NULL /\ schema_ok /\ table_ok
                             /\ append_ok) :
     \E error \in IF create_ok THEN {NULL} ELSE HandleEngineMessages :
       LET created == handle # NULL /\ schema_ok /\ table_ok /\ append_ok IN
       /\ handles' =
            IF ~created THEN handles
            ELSE IF ~create_ok
            THEN [handles EXCEPT !.appender =
                    [mem |-> "freed", engine |-> NULL,
                     error |-> creation_error(error,
                                 "duckdb_appender_create failed")]]
            ELSE [handles EXCEPT !.appender =
                    [mem |-> "live", engine |-> "appender", error |-> ""]]
       /\ call' = [Called EXCEPT !.op = "appender_create",
                     !.ret = IF created /\ create_ok THEN "appender" ELSE NULL,
                     !.failed = ~(created /\ create_ok),
                     !.engine = IF created /\ ~create_ok THEN "error"
                                ELSE IF created THEN "appender" ELSE "none",
                     !.engine_error = error,
                     !.engine_calls = IF created THEN 1 ELSE 0,
                     !.field_before = handles.appender.error]
  /\ UNCHANGED <<duckdb_mb_last_error_message, result, column_types, stream,
                 chunks, validity, eos_seen, delivered, arrow_vars,
                 list_chunk>>

\* duckdb_mb_begin_row(mb_append) on the appender the caller holds
duckdb_mb_begin_row ==
  /\ LET null == handles.appender.mem # "live"
                 \/ handles.appender.engine = NULL IN
     \E begin_ok \in Choice(~null) :
     \E error \in IF null \/ begin_ok THEN {NULL} ELSE HandleEngineMessages :
       /\ handles' =
            IF null \/ begin_ok THEN handles
            ELSE [handles EXCEPT !.appender.error =
                    error_field_after(handles.appender.error, error)]
       /\ call' = [Called EXCEPT !.op = "begin_row",
                     !.count = IF ~null /\ begin_ok THEN 1 ELSE 0,
                     !.failed = (null \/ ~begin_ok),
                     !.engine = IF null THEN "none"
                                ELSE IF begin_ok THEN "row" ELSE "error",
                     !.engine_error = error,
                     !.engine_calls = IF null THEN 0 ELSE 1,
                     !.field_before = handles.appender.error]
  /\ UNCHANGED <<duckdb_mb_last_error_message, result, column_types, stream,
                 chunks, validity, eos_seen, delivered, arrow_vars,
                 list_chunk>>

\* duckdb_mb_config_create(); the caller holds no config
duckdb_mb_config_create ==
  /\ handles.config.mem # "live"
  /\ \E cfg_ok \in BOOLEAN :
     \E create_ok \in Choice(cfg_ok) :
       /\ handles' =
            IF ~cfg_ok THEN handles
            ELSE IF ~create_ok
            THEN [handles EXCEPT !.config =
                    [mem |-> "freed", engine |-> NULL,
                     error |-> "duckdb_create_config failed"]]
            ELSE [handles EXCEPT !.config =
                    [mem |-> "live", engine |-> "config", error |-> ""]]
       /\ call' = [Called EXCEPT !.op = "config_create",
                     !.ret = IF cfg_ok /\ create_ok THEN "config" ELSE NULL,
                     !.failed = ~(cfg_ok /\ create_ok),
                     !.engine = IF cfg_ok /\ ~create_ok THEN "error"
                                ELSE IF cfg_ok THEN "config" ELSE "none",
                     !.engine_calls = IF cfg_ok THEN 1 ELSE 0,
                     !.field_before = handles.config.error]
  /\ UNCHANGED <<duckdb_mb_last_error_message, result, column_types, stream,
                 chunks, validity, eos_seen, delivered, arrow_vars,
                 list_chunk>>

\* no handle was created yet
InitHandles ==
  /\ duckdb_mb_last_error_message = NULL
  /\ result = [mem |-> "none", types |-> <<>>, pending |-> <<>>, rows |-> 0,
               taken |-> 0, dropped |-> 0, failed |-> FALSE, error |-> NULL,
               destroys |-> 0, frees |-> 0]
  /\ column_types = [mem |-> "none", frees |-> 0, entries |-> <<>>]
  /\ stream = NoStream
  /\ chunks = [c \in 1..MaxChunks |-> NoChunk]
  /\ validity = <<>>
  /\ call = NoCall
  /\ eos_seen = FALSE
  /\ delivered = 0
  /\ arrow_result = NoArrowResult
  /\ bytes = NoBytes
  /\ handles = NoHandles
  /\ list_chunk = NoListChunk

NextHandles ==
  \/ duckdb_mb_query
  \/ duckdb_mb_prepare
  \/ duckdb_mb_bind_int
  \/ duckdb_mb_appender_create
  \/ duckdb_mb_begin_row
  \/ duckdb_mb_config_create

\* queries, statements, appenders and configs with their error reports
SpecHandles == InitHandles /\ [][NextHandles]_vars

\* ----------------------------------------------------------- classification
\* the column types of the results to classify: the last column has any
\* of the engine's types, the columns before it a type of the sample
TypedColumns ==
  UNION { {types \in [1..n -> duckdb_type] :
             \A col \in 1..(n - 1) : types[col] \in ColumnTypeSample} :
          n \in 0..MaxColumns }

\* an executed result whose columns have the types TypedColumns
InitClassify ==
  /\ duckdb_mb_last_error_message = NULL
  /\ \E types \in TypedColumns :
         result = [mem |-> "none", types |-> types, pending |-> <<>>,
                   rows |-> 0, taken |-> 0, dropped |-> 0,
                   failed |-> FALSE, error |-> NULL,
                   destroys |-> 0, frees |-> 0]
  /\ column_types = [mem |-> "none", frees |-> 0, entries |-> <<>>]
  /\ stream = NoStream
  /\ chunks = [c \in 1..MaxChunks |-> NoChunk]
  /\ validity = <<>>
  /\ call = NoCall
  /\ eos_seen = FALSE
  /\ delivered = 0
  /\ arrow_result = NoArrowResult
  /\ bytes = NoBytes
  /\ handles = NoHandles
  /\ list_chunk = NoListChunk

NextClassify == duckdb_mb_query_stream

\* opening a stream over columns of every engine type
SpecClassify == InitClassify /\ [][NextClassify]_vars

\* ------------------------------------------------- the life of a type table
\* duckdb_mb_stream_column_name(stream, col) on the caller's stream (NULL
\* when it holds none); the engine may have no name for the column
duckdb_mb_stream_column_name(col) ==
  /\ stream.mem # "freed"
  /\ LET null == stream.mem = "none" \/ stream.result = NULL
         rejected == null \/ col < 0 \/ col >= stream.column_count
     IN  \E name \in IF rejected THEN {NULL} ELSE {NULL, "name"} :
           call' = [Called EXCEPT !.op = "stream_column_name", !.col = col,
                      !.ret = IF name = NULL THEN "" ELSE name]
  /\ UNCHANGED <<duckdb_mb_last_error_message, result, column_types, stream,
                 chunks, validity, eos_seen, delivered, arrow_vars,
                 handle_vars>>

\* a stream is opened, its chunks are fetched, the first row of the first
\* chunk is decoded, the chunk destroyed, and the stream destroyed once
NextTable ==
  \/ duckdb_mb_query_stream
  \/ duckdb_mb_stream_fetch_chunk
  \/ \E col \in ColumnArgs : duckdb_mb_stream_column_name(col)
  \/ \E col \in ColumnArgs : duckdb_mb_chunk_value(col, 0)
  \/ chunks[1].mem = "live" /\ duckdb_mb_chunk_destroy(1)
  \/ stream.mem = "live" /\ duckdb_mb_stream_destroy

\* an executed result of up to MaxChunks chunks of one row each
InitTable ==
  /\ duckdb_mb_last_error_message = NULL
  /\ \E n \in 0..MaxColumns, k \in 0..MaxChunks :
       \E types \in [1..n -> ColumnTypeSample] :
         result = [mem |-> "none", types |-> types,
                   pending |-> [c \in 1..k |-> 1],
                   rows |-> k, taken |-> 0, dropped |-> 0,
                   failed |-> FALSE, error |-> NULL,
                   destroys |-> 0, frees |-> 0]
  /\ column_types = [mem |-> "none", frees |-> 0, entries |-> <<>>]
  /\ stream = NoStream
  /\ chunks = [c \in 1..MaxChunks |-> NoChunk]
  /\ validity = <<>>
  /\ call = NoCall
  /\ eos_seen = FALSE
  /\ delivered = 0
  /\ arrow_result = NoArrowResult
  /\ bytes = NoBytes
  /\ handles = NoHandles
  /\ list_chunk = NoListChunk

SpecTable == InitTable /\ [][NextTable]_vars

\* ------------------------------------------------ composite values as text
\* the names, keys and values the caller passes: NULL, "" and "abc"
TextSample == {v \in HostStringSample : Len(v.bytes) <= 3}

\* `values[i] ? Moonbit_array_length(values[i]) : 0`
LengthOf(value) == IF value.ptr THEN Len(value.bytes) ELSE 0

\* the chars the copy loop stores for values[i]
CharsOf(value) == IF value.ptr THEN value.bytes ELSE <<>>

\* the sizing pass of the list serializers
list_total_len(values) ==
  2 + SumSeq([i \in 1..Len(values) |->
                (IF i > 1 THEN 2 ELSE 0) + LengthOf(values[i]) + 2])

\* the sizing pass of the struct serializers
struct_total_len(field_names, field_values) ==
  2 + SumSeq([i \in 1..Len(field_names) |->
                (IF i > 1 THEN 2 ELSE 0) + LengthOf(field_names[i])
                + LengthOf(field_values[i]) + 4])

\* the sizing pass of the map serializers
map_total_len(keys, values) ==
  2 + SumSeq([i \in 1..Len(keys) |->
                (IF i > 1 THEN 2 ELSE 0) + LengthOf(keys[i])
                + LengthOf(values[i]) + 6])

\* the bytes the list serializers store from buffer[0] on:
\* [ "v", "v" ] and the terminating NUL
list_text(values) ==
  <<91>>
  \o Flatten([i \in 1..Len(values) |->
                (IF i > 1 THEN <<44, 32>> ELSE <<>>)
                \o <<34>> \o CharsOf(values[i]) \o <<34>>])
  \o <<93, 0>>

\* the bytes the struct and map serializers store from buffer[0] on:
\* { "n": "v", "n": "v" } and the terminating NUL
object_text(names, values) ==
  <<123>>
  \o Flatten([i \in 1..Len(names) |->
                (IF i > 1 THEN <<44, 32>> ELSE <<>>)
                \o <<34>> \o CharsOf(names[i]) \o <<34, 58, 32, 34>>
                \o CharsOf(values[i]) \o <<34>>])
  \o <<125, 0>>

\* the part the six serializers share: the early return on a NULL handle,
\* malloc(total_len + 1), the stores of text, the engine call with the
\* buffer, free(buffer) and the error report.  h is the handle the call
\* works on; bytes keeps the buffer as it was handed to the engine.
serialize_varchar(op, h, total_len, text, message) ==
  /\ bytes.op = "none"
  /\ LET null == handles[h].mem # "live" \/ handles[h].engine = NULL IN
     \E buffer_ok \in Choice(~null) :
     \E engine_ok \in Choice(~null /\ buffer_ok) :
     \E error \in IF engine_ok THEN {NULL} ELSE HandleEngineMessages :
       LET written == ~null /\ buffer_ok IN
       /\ bytes' = Returned(op, 0,
                     IF written
                     THEN Store(moonbit_make_bytes_raw(total_len + 1), 0, text)
                     ELSE EmptyBytes)
       /\ handles' =
            [handles EXCEPT ![h].error =
               IF null THEN @
               ELSE IF ~buffer_ok THEN message
               ELSE IF ~engine_ok THEN error_field_after(@, error)
               ELSE @]
       /\ call' = [Called EXCEPT !.op = op,
                     !.count = IF written /\ engine_ok THEN 1 ELSE 0,
                     !.failed = ~(written /\ engine_ok),
                     !.engine = IF ~written THEN "none"
                                ELSE IF engine_ok THEN "bound" ELSE "error",
                     !.engine_error = error,
                     !.engine_calls = IF written THEN 1 ELSE 0,
                     !.field_before = handles[h].error]
  /\ UNCHANGED <<duckdb_mb_last_error_message, result, column_types, stream,
                 chunks, validity, eos_seen, delivered, arrow_result,
                 list_chunk>>

\* the pairs of arrays of one length the struct and map calls are given
TextPairs ==
  UNION { [names : [1..n -> TextSample], values : [1..n -> TextSample]] :
          n \in 0..MaxValues }

duckdb_mb_bind_list_varchar ==
  \E count \in 0..MaxValues : \E values \in [1..count -> TextSample] :
    serialize_varchar("bind_list_varchar", "statement",
                      list_total_len(values), list_text(values),
                      "failed to allocate list buffer")

duckdb_mb_bind_struct_varchar ==
  \E fields \in TextPairs :
    serialize_varchar("bind_struct_varchar", "statement",
                      struct_total_len(fields.names, fields.values),
                      object_text(fields.names, fields.values),
                      "failed to allocate struct buffer")

duckdb_mb_bind_map_varchar_varchar ==
  \E entries \in TextPairs :
    serialize_varchar("bind_map_varchar_varchar", "statement",
                      map_total_len(entries.names, entries.values),
                      object_text(entries.names, entries.values),
                      "failed to allocate map buffer")

duckdb_mb_append_list_varchar ==
  \E count \in 0..MaxValues : \E values \in [1..count -> TextSample] :
    serialize_varchar("append_list_varchar", "appender",
                      list_total_len(values), list_text(values),
                      "failed to allocate list buffer")

duckdb_mb_append_struct_varchar ==
  \E fields \in TextPairs :
    serialize_varchar("append_struct_varchar", "appender",
                      struct_total_len(fields.names, fields.values),
                      object_text(fields.names, fields.values),
                      "failed to allocate struct buffer")

duckdb_mb_append_map_varchar_varchar ==
  \E entries \in TextPairs :
    serialize_varchar("append_map_varchar_varchar", "appender",
                      map_total_len(entries.names, entries.values),
                      object_text(entries.names, entries.values),
                      "failed to allocate map buffer")

\* the caller holds a statement and an appender, or neither
InitSerialize ==
  /\ duckdb_mb_last_error_message = NULL
  /\ result = [mem |-> "none", types |-> <<>>, pending |-> <<>>, rows |-> 0,
               taken |-> 0, dropped |-> 0, failed |-> FALSE, error |-> NULL,
               destroys |-> 0, frees |-> 0]
  /\ column_types = [mem |-> "none", frees |-> 0, entries |-> <<>>]
  /\ stream = NoStream
  /\ chunks = [c \in 1..MaxChunks |-> NoChunk]
  /\ validity = <<>>
  /\ call = NoCall
  /\ eos_seen = FALSE
  /\ delivered = 0
  /\ arrow_result = NoArrowResult
  /\ bytes = NoBytes
  /\ handles \in {NoHandles,
                  [NoHandles EXCEPT
                     !.statement = [mem |-> "live", engine |-> "stmt",
                                    error |-> ""],
                     !.appender = [mem |-> "live", engine |-> "appender",
                                   error |-> ""]]}
  /\ list_chunk = NoListChunk

NextSerialize ==
  \/ duckdb_mb_bind_list_varchar
  \/ duckdb_mb_bind_struct_varchar
  \/ duckdb_mb_bind_map_varchar_varchar
  \/ duckdb_mb_append_list_varchar
  \/ duckdb_mb_append_struct_varchar
  \/ duckdb_mb_append_map_varchar_varchar

\* lists, structs and maps bound and appended as text
SpecSerialize == InitSerialize /\ [][NextSerialize]_vars

\* ------------------------------------------------- sizes of large columns
\* INT32_MAX, the largest value of the int32_t total_size and row_count
Int32Max == 2147483647

\* an int32_t value of an expression, with whether a signed operation of
\* the expression overflowed
I32(v) == [value |-> v, overflow |-> FALSE]

\* the two's-complement int32_t of the low 32 bits of hi * 2^16 + lo
Signed32(hi, lo) ==
  IF hi % 65536 >= 32768 THEN ((hi % 65536) - 65536) * 65536 + lo
  ELSE (hi % 65536) * 65536 + lo

\* x * k in int32_t, for x >= 0 and a small k > 0; on overflow the value
\* is the low 32 bits of the product
mul32(x, k) ==
  LET a == x.value
      low == (a % 65536) * k
      high == (a \div 65536) * k + low \div 65536
  IN  IF a <= Int32Max \div k
      THEN [value |-> a * k, overflow |-> x.overflow]
      ELSE [value |-> Signed32(high, low % 65536), overflow |-> TRUE]

\* x + y in int32_t, for y >= 0; on overflow the value is the low 32 bits
\* of the sum
add32(x, y) ==
  LET a == x.value
      b == y.value
  IN  IF a < 0 \/ b <= Int32Max - a
      THEN [value |-> a + b, overflow |-> x.overflow \/ y.overflow]
      ELSE [value |-> (a - Int32Max - 1) + (b - Int32Max - 1),
            overflow |-> TRUE]

\* (int32_t)total_data_len of a size_t given as <<hi, lo>>, its value
\* being hi * 2^16 + lo
cast32(total_data_len) ==
  I32(Signed32(total_data_len[1], total_data_len[2]))

\* the expression of `int32_t total_size = ...` of each column getter
total_size(op, row_count, total_data_len) ==
  LET n == I32(row_count) IN
  IF op = "int32" THEN add32(I32(4), mul32(n, 4))
  ELSE IF op \in {"int64", "double"} THEN add32(I32(4), mul32(n, 8))
  ELSE IF op = "bool" THEN add32(I32(4), n)
  ELSE IF op = "int32_nullable" THEN add32(add32(I32(4), mul32(n, 4)), n)
  ELSE IF op \in {"int64_nullable", "double_nullable"}
       THEN add32(add32(I32(4), mul32(n, 8)), n)
  ELSE IF op = "bool_nullable" THEN add32(add32(I32(4), n), n)
  ELSE IF op = "string"
       THEN add32(cast32(total_data_len), add32(I32(4), I32(4)))
  ELSE add32(add32(cast32(total_data_len), add32(I32(4), I32(4))), n)

\* the getters named by the buffers they build
GetterOps ==
  {"int32", "int64", "double", "bool", "string", "int32_nullable",
   "int64_nullable", "double_nullable", "bool_nullable", "string_nullable"}

\* the row counts of the large results: around the places where 4 + 8n,
\* 4 + 9n, 4 + 5n and 4 + 4n pass INT32_MAX
RowCountSample ==
  {0, 1, 2, 238609293, 238609294, 268435455, 268435456, 429496728,
   429496729, 536870911, 536870912, 1073741823, 2147483643, 2147483647}

\* the total_data_len of the large string columns, as <<hi, lo>>:
\* 5, 2^31 - 9, 2^31 - 8, 2^31 and 2^32 + 5
TotalDataLenSample ==
  {<<0, 5>>, <<32767, 65527>>, <<32767, 65528>>, <<32768, 0>>, <<65536, 5>>}

\* a column getter on a result of arrow_result.row_count rows, as far as
\* the size of its buffer goes: the early return, total_size, the
\* allocation, and whether the loop then stores past the allocation.  A
\* signed overflow in total_size is undefined: the build wraps or traps.
get_column_size(op) ==
  /\ bytes.op = "none"
  /\ LET row_count == arrow_result.row_count
         size == total_size(op, row_count, arrow_result.total_data_len)
         truncated == op \in {"string", "string_nullable"}
                      /\ arrow_result.total_data_len[1] >= 32768
     IN  \E trap \in IF row_count > 0 /\ size.overflow THEN BOOLEAN
                     ELSE {FALSE} :
           /\ bytes' = IF row_count <= 0 \/ trap
                       THEN [NoBytes EXCEPT !.op = op]
                       ELSE [NoBytes EXCEPT !.op = op, !.size = size.value,
                               !.overflow = (size.overflow \/ truncated),
                               !.rows_read = 1]
           /\ call' = [Called EXCEPT !.op = op,
                         !.ret = IF trap THEN "trap" ELSE "bytes",
                         !.failed = trap]
  /\ UNCHANGED <<duckdb_mb_last_error_message, result, column_types, stream,
                 chunks, validity, eos_seen, delivered, arrow_result,
                 handle_vars>>

\* a materialised result of one column with very many rows
InitSize ==
  /\ duckdb_mb_last_error_message = NULL
  /\ result = [mem |-> "none", types |-> <<>>, pending |-> <<>>, rows |-> 0,
               taken |-> 0, dropped |-> 0, failed |-> FALSE, error |-> NULL,
               destroys |-> 0, frees |-> 0]
  /\ column_types = [mem |-> "none", frees |-> 0, entries |-> <<>>]
  /\ stream = NoStream
  /\ chunks = [c \in 1..MaxChunks |-> NoChunk]
  /\ validity = <<>>
  /\ call = NoCall
  /\ eos_seen = FALSE
  /\ delivered = 0
  /\ \E n \in RowCountSample, total \in TotalDataLenSample :
       arrow_result = [handle |-> "arrow_result", column_count |-> 1,
                       row_count |-> n, cells |-> <<>>,
                       total_data_len |-> total]
  /\ bytes = NoBytes
  /\ handles = NoHandles
  /\ list_chunk = NoListChunk

NextSize == \E op \in GetterOps : get_column_size(op)

\* the buffer sizes of the column getters on large results
SpecSize == InitSize /\ [][NextSize]_vars

\* ------------------------------------------------- materialised queries
\* what a read of the error field finds once free(arrow_result) has run: the
\* block belongs to the allocator, so the field may still hold what strncpy
\* left, or the allocator's own bytes
FreedError(field) == {field, "", "bytes of the freed block"}

\* duckdb_mb_query_arrow(handle, sql); the caller holds no arrow result.
\* On an engine failure the message is copied into arrow_result->error, the
\* handle is freed, and duckdb_mb_set_error is passed arrow_result->error.
duckdb_mb_query_arrow ==
  /\ arrow_result = NoArrowResult
  /\ \E handle \in {NULL, "conn"} :
     \E sql_ok \in Choice(handle # NULL) :
     \E handle_ok \in Choice(handle # NULL /\ sql_ok) :
     \E query_ok \in Choice(handle # NULL /\ sql_ok /\ handle_ok) :
     \E error \in IF query_ok THEN {NULL} ELSE HandleEngineMessages :
       LET queried == handle # NULL /\ sql_ok /\ handle_ok
           field == IF error # NULL THEN strncpy_error(error)
                    ELSE "duckdb_query failed"
       IN
       \E message \in
            IF handle = NULL THEN {"invalid connection handle"}
            ELSE IF ~sql_ok THEN {"failed to allocate SQL buffer"}
            ELSE IF ~handle_ok THEN {"failed to allocate arrow result handle"}
            ELSE IF ~query_ok THEN FreedError(field)
            ELSE {NoError} :
       \E buf \in Choice(message # NoError) :
       \E made \in IF queried /\ query_ok
                   THEN ArrowResults \ {NoArrowResult}
                   ELSE {NoArrowResult} :
         /\ arrow_result' = made
         /\ duckdb_mb_last_error_message' =
              IF message = NoError THEN duckdb_mb_last_error_message
              ELSE duckdb_mb_set_error(message, buf)
         /\ call' = [Called EXCEPT !.op = "query_arrow", !.error = message,
                       !.error_stored = buf,
                       !.ret = made.handle,
                       !.failed = (message # NoError),
                       !.use_after_free = (queried /\ ~query_ok),
                       !.engine = IF queried /\ ~query_ok THEN "error"
                                  ELSE IF queried THEN "result" ELSE "none",
                       !.engine_error = error,
                       !.engine_calls = IF queried THEN 1 ELSE 0]
  /\ UNCHANGED <<result, column_types, stream, chunks, validity, eos_seen,
                 delivered, bytes, handle_vars>>

NextArrow ==
  \/ duckdb_mb_query_arrow
  \/ duckdb_mb_last_error

\* materialising a query, and reading the last error after it
SpecArrow == InitHandles /\ [][NextArrow]_vars

\* ------------------------------------------------------- the schema text
\* the column names of this model: a NULL name, and strlen of the others
ColumnNames ==
  {[null |-> TRUE, len |-> 0]} \cup
  {[null |-> FALSE, len |-> n] : n \in {0, 4, 161, 162, 300}}

\* the column types the schemas of this model are drawn from
SchemaTypeSample ==
  {"BOOLEAN", "INTEGER", "BIGINT", "DOUBLE", "VARCHAR", "DECIMAL"}

\* the switch of duckdb_mb_arrow_schema
type_id(type) ==
  CASE type = "INVALID" -> "string"
    [] type = "BOOLEAN" -> "bool"
    [] type \in {"TINYINT", "SMALLINT", "INTEGER"} -> "int32"
    [] type = "BIGINT" -> "int64"
    [] type \in {"FLOAT", "DOUBLE"} -> "double"
    [] type = "VARCHAR" -> "string"
    [] OTHER -> "string"

type_id_len(type) ==
  CASE type_id(type) = "bool" -> 4
    [] type_id(type) \in {"int32", "int64"} -> 5
    [] OTHER -> 6

\* the length of `%s{"name":"%s","nullable":true,"type_id":"%s"}` for
\* column i (a C index): what snprintf returns, whatever it could write
field_len(i, name, type) ==
  (IF i = 0 THEN 0 ELSE 1) + 40 + (IF name.null THEN 0 ELSE name.len)
    + type_id_len(type)

\* one snprintf(json_buffer + pos, json_capacity - pos, ...) that formats
\* len bytes.  The size is a size_t: it wraps to a huge number once pos has
\* passed json_capacity, and the call then writes len + 1 bytes at pos.
\* end: one past the last byte written (pos when the size is 0).
snprintf_end(pos, json_capacity, len) ==
  IF pos = json_capacity THEN pos
  ELSE IF pos > json_capacity THEN pos + len + 1
  ELSE IF len <= json_capacity - pos - 1 THEN pos + len + 1
  ELSE json_capacity

\* the field loop from column i on: pos after it, and high, one past the
\* highest byte of json_buffer written so far
RECURSIVE schema_loop(_, _, _, _, _)
schema_loop(columns, i, pos, high, json_capacity) ==
  IF i >= Len(columns) THEN [pos |-> pos, high |-> high]
  ELSE LET len == field_len(i, columns[i + 1].name, columns[i + 1].type)
           end == snprintf_end(pos, json_capacity, len)
       IN  schema_loop(columns, i + 1, pos + len,
                       IF end > high THEN end ELSE high, json_capacity)

\* duckdb_mb_arrow_schema(arrow_result): the text is "[]" for a NULL handle,
\* for no columns and when malloc fails; otherwise the loop runs, `]` goes
\* to json_buffer[pos] and the NUL to json_buffer[pos + 1], and
\* duckdb_mb_make_bytes copies pos bytes out of json_buffer.
duckdb_mb_arrow_schema ==
  /\ bytes.op = "none"
  /\ \E handle \in {NULL, arrow_result.handle} :
     \E json_buffer \in Choice(handle # NULL
                               /\ arrow_result.column_count > 0) :
       LET col_count == arrow_result.column_count
           built == handle # NULL /\ col_count > 0 /\ json_buffer
           json_capacity == col_count * 200 + 10
           loop == schema_loop(arrow_result.columns, 0, 1, 1, json_capacity)
           high == IF loop.pos + 2 > loop.high THEN loop.pos + 2
                   ELSE loop.high
       IN
       /\ bytes' =
            IF ~built
            THEN [op |-> "schema", col_idx |-> 0, size |-> 2, data |-> <<>>,
                  overflow |-> FALSE, rows_read |-> 0, capacity |-> 0,
                  high |-> 0]
            ELSE [op |-> "schema", col_idx |-> 0, size |-> loop.pos + 1,
                  data |-> <<>>, overflow |-> high > json_capacity,
                  rows_read |-> 0, capacity |-> json_capacity,
                  high |-> high]
       /\ call' = [Called EXCEPT !.op = "arrow_schema",
                     !.ret = IF built THEN "json" ELSE "[]",
                     !.count = IF built THEN col_count ELSE 0]
  /\ UNCHANGED <<duckdb_mb_last_error_message, result, column_types, stream,
                 chunks, validity, eos_seen, delivered, arrow_result,
                 handle_vars>>

\* the results of a query of 0 .. MaxColumns columns, with their names
InitSchema ==
  /\ duckdb_mb_last_error_message = NULL
  /\ result = [mem |-> "none", types |-> <<>>, pending |-> <<>>, rows |-> 0,
               taken |-> 0, dropped |-> 0, failed |-> FALSE, error |-> NULL,
               destroys |-> 0, frees |-> 0]
  /\ column_types = [mem |-> "none", frees |-> 0, entries |-> <<>>]
  /\ stream = NoStream
  /\ chunks = [c \in 1..MaxChunks |-> NoChunk]
  /\ validity = <<>>
  /\ call = NoCall
  /\ eos_seen = FALSE
  /\ delivered = 0
  /\ \E n \in 0..MaxColumns :
     \E columns \in [1..n -> [name : ColumnNames, type : SchemaTypeSample]] :
       arrow_result = [handle |-> "arrow_result", column_count |-> n,
                       row_count |-> 0, cells |-> <<>>, columns |-> columns]
  /\ bytes = NoBytes
  /\ handles = NoHandles
  /\ list_chunk = NoListChunk

NextSchema == duckdb_mb_arrow_schema

\* the schema text of a materialised result
SpecSchema == InitSchema /\ [][NextSchema]_vars

\* ------------------------------------------------------ dates as text
\* C's / and % on integers truncate toward zero; b > 0
c_div(a, b) == IF a >= 0 THEN a \div b ELSE -((-a) \div b)
c_mod(a, b) == a - b * c_div(a, b)

\* the day counts of this model: around the epoch, around the ends of the
\* 365-day year on both sides, and far from it
DaysSample ==
  (-731 .. -725) \cup (-370 .. -355) \cup (-35 .. 35) \cup (355 .. 370)
    \cup (720 .. 735) \cup {19000, 20453, -25567, 2147483647, -2147483647}

\* days_to_date_string(days, buf, buf_size): the three numbers formatted as
\* "%04d-%02d-%02d"
days_to_date_string(days) ==
  LET year0 == 1970 + c_div(days, 365)
      remaining0 == c_mod(days, 365)
      year == IF remaining0 < 0 THEN year0 - 1 ELSE year0
      remaining == IF remaining0 < 0 THEN remaining0 + 365 ELSE remaining0
  IN  [NoText EXCEPT !.year = year,
                     !.month = 1 + c_div(remaining, 30),
                     !.day = 1 + c_mod(remaining, 30)]

\* an int64_t count of microseconds, held as whole seconds and the
\* microseconds beyond them (both of the sign of the count), so that
\* micros / 1000000 is the seconds part
MicrosOf(seconds) ==
  {[seconds |-> seconds, micros |-> m] :
     m \in IF seconds > 0 THEN {0, 999999}
           ELSE IF seconds < 0 THEN {0, -999999}
           ELSE {0, 1, -1, 999999, -999999}}

\* the second counts of this model: around the epoch, around day 360 of
\* the 365-day year on both sides of it, and far from it
SecondsSample ==
  {0, 1, -1, 59, 60, 3599, 3600, 86399, 86400, -86399, -86400, -86401,
   31103999, 31104000, 31535999, 31536000, 31536001, -31535999, -31536000,
   -31536001, -432000, -432001, 62639999, 62640000, 1700000000,
   2147483647, -2147483647}

MicrosSample == UNION {MicrosOf(seconds) : seconds \in SecondsSample}

\* micros_to_timestamp_string(micros, buf, buf_size): the six numbers
\* formatted as "%04d-%02d-%02d %02d:%02d:%02d"
micros_to_timestamp_string(micros) ==
  LET seconds == micros.seconds
      year0 == 1970 + c_div(seconds, 31536000)
      remaining0 == c_mod(seconds, 31536000)
      year == IF remaining0 < 0 THEN year0 - 1 ELSE year0
      remaining == IF remaining0 < 0 THEN remaining0 + 31536000
                   ELSE remaining0
      day_of_year == c_div(remaining, 86400)
  IN  [year |-> year,
       month |-> 1 + c_div(day_of_year, 30),
       day |-> 1 + c_mod(day_of_year, 30),
       hour |-> c_div(c_mod(remaining, 86400), 3600),
       minute |-> c_div(c_mod(remaining, 3600), 60),
       sec |-> c_mod(remaining, 60)]

\* the tail shared by duckdb_mb_append_date and duckdb_mb_append_timestamp:
\* the text goes to duckdb_append_varchar, and a failure copies the
\* appender's message into the handle
append_text(op, text) ==
  LET null == handles.appender.mem # "live"
              \/ handles.appender.engine = NULL IN
  \E append_ok \in Choice(~null) :
  \E error \in IF null \/ append_ok THEN {NULL} ELSE HandleEngineMessages :
    /\ handles' =
         IF null \/ append_ok THEN handles
         ELSE [handles EXCEPT !.appender.error =
                 error_field_after(handles.appender.error, error)]
    /\ call' = [Called EXCEPT !.op = op,
                  !.count = IF ~null /\ append_ok THEN 1 ELSE 0,
                  !.failed = (null \/ ~append_ok),
                  !.engine = IF null THEN "none"
                             ELSE IF append_ok THEN "varchar" ELSE "error",
                  !.engine_error = error,
                  !.engine_calls = IF null THEN 0 ELSE 1,
                  !.field_before = handles.appender.error,
                  !.text = IF null THEN NoText ELSE text]
    /\ UNCHANGED <<duckdb_mb_last_error_message, result, column_types,
                   stream, chunks, validity, eos_seen, delivered, arrow_vars,
                   list_chunk>>

\* duckdb_mb_append_date(mb_append, days)
duckdb_mb_append_date(days) ==
  append_text("append_date", days_to_date_string(days))

\* duckdb_mb_append_timestamp(mb_append, micros)
duckdb_mb_append_timestamp(micros) ==
  append_text("append_timestamp", micros_to_timestamp_string(micros))

\* the caller holds an appender, or none
InitCalendar ==
  /\ duckdb_mb_last_error_message = NULL
  /\ result = [mem |-> "none", types |-> <<>>, pending |-> <<>>, rows |-> 0,
               taken |-> 0, dropped |-> 0, failed |-> FALSE, error |-> NULL,
               destroys |-> 0, frees |-> 0]
  /\ column_types = [mem |-> "none", frees |-> 0, entries |-> <<>>]
  /\ stream = NoStream
  /\ chunks = [c \in 1..MaxChunks |-> NoChunk]
  /\ validity = <<>>
  /\ call = NoCall
  /\ eos_seen = FALSE
  /\ delivered = 0
  /\ arrow_result = NoArrowResult
  /\ bytes = NoBytes
  /\ handles \in {NoHandles,
                  [NoHandles EXCEPT !.appender =
                     [mem |-> "live", engine |-> "appender", error |-> ""]]}
  /\ list_chunk = NoListChunk

NextCalendar ==
  \/ \E days \in DaysSample : duckdb_mb_append_date(days)
  \/ \E micros \in MicrosSample : duckdb_mb_append_timestamp(micros)

\* dates and timestamps appended as text
SpecCalendar == InitCalendar /\ [][NextCalendar]_vars

\* =============================================================== claims
UnsupportedColumn ==
  \E col \in 1..Len(result.types) :
    ~duckdb_mb_is_stream_supported_type(result.types[col])

\* the call was duckdb_mb_query_stream and reached
\* duckdb_mb_stream_from_result with the executed result
FromResultCalled == call.op = "query_stream" /\ call.engine = "result"

\* C1: once a fetch has found the engine exhausted, every later fetch on
\* the open stream returns no chunk and reports no error.
C1_EndOfStreamStays ==
  (call.op = "fetch_chunk" /\ call.after_eos)
    => (call.ret = NULL /\ call.error = NoError)

\* C2: a fetch that finds the engine merely out of chunks is not reported
\* as a failure: nothing is handed to duckdb_mb_set_error and the
\* last-error slot keeps what it held.
C2_ExhaustionIsNoError ==
  (call.op = "fetch_chunk" /\ call.engine = "exhausted")
    => call.error = NoError

\* C3 as stated: whenever a column has an unsupported type,
\* duckdb_mb_stream_from_result returns no stream, has freed the type table
\* and the last-error slot holds the unsupported-column-type message.
C3_AsStated ==
  (FromResultCalled /\ UnsupportedColumn)
    => /\ call.ret = NULL
       /\ stream.mem = "none"
       /\ column_types.mem = "freed"
       /\ duckdb_mb_last_error_message =
            "streaming query has unsupported column type"

\* C3: stream creation is all-or-nothing.  With an unsupported column no
\* stream is returned, no type table stays allocated (a table that was
\* allocated is freed exactly once) and an error is handed to
\* duckdb_mb_set_error: the unsupported-column-type message whenever the
\* table could be allocated, the allocation failure otherwise.  A stream is
\* returned only with a table that holds the supported type of every column.
C3_AllOrNothing ==
  /\ (FromResultCalled /\ UnsupportedColumn)
       => /\ call.ret = NULL
          /\ stream.mem = "none"
          /\ column_types.mem \in {"none", "freed"}
          /\ column_types.frees = IF column_types.mem = "freed" THEN 1 ELSE 0
          /\ call.error = IF column_types.mem = "freed"
                          THEN "streaming query has unsupported column type"
                          ELSE "failed to allocate column types"
  /\ stream.mem = "live"
       => /\ ~UnsupportedColumn
          /\ stream.column_count = Len(result.types)
          /\ column_types.entries = result.types
          /\ column_types.frees = 0
          /\ column_types.mem = IF Len(result.types) > 0 THEN "live" ELSE "none"

\* C3 witness: the second column is the unsupported one, so the table was
\* partially filled before it was freed and the error recorded
C3_Witness ==
  /\ FromResultCalled
  /\ UnsupportedColumn
  /\ column_types.mem = "freed"
  /\ Len(column_types.entries) = 1
  /\ stream.mem = "none"
  /\ duckdb_mb_last_error_message =
       "streaming query has unsupported column type"

\* the engine chunks the caller holds handles to
HandedOut ==
  {chunks[c].data.index : c \in {d \in 1..MaxChunks : chunks[d].mem # "none"}}

C4_ReleasedOnce ==
  /\ stream.frees <= 1
  /\ result.destroys <= 1 /\ result.frees <= 1
  /\ column_types.frees <= 1
  /\ \A c \in 1..MaxChunks : chunks[c].frees <= 1 /\ chunks[c].destroys <= 1
  /\ (call.op \in {"stream_destroy", "chunk_destroy"}) => ~call.use_after_free

\* C5: after duckdb_mb_stream_destroy, an operation on the outstanding
\* chunk does not read the destroyed stream's memory.
C5_NoReadOfDestroyedStream ==
  (stream.mem = "freed"
   /\ call.op \in {"chunk_is_null", "chunk_value", "chunk_row_count",
                   "chunk_column_count", "chunk_destroy"})
    => ~call.use_after_free

\* C6: on a live stream, a call of the is-null query or of the decoder with
\* a column outside [0, column_count) or a row outside [0, row_count) reads
\* neither the validity mask nor the data array.
C6_OutOfRangeRejected ==
  (/\ stream.mem = "live"
   /\ call.op \in {"chunk_is_null", "chunk_value"}
   /\ \/ call.col < 0 \/ call.col >= duckdb_mb_chunk_column_count(chunks[1])
      \/ call.row < 0 \/ call.row >= duckdb_mb_chunk_row_count(chunks[1]))
    => (call.data_read = -1 /\ call.validity_read = -1)

\* C7: for a row whose validity bit is 0, the is-null query answers true
\* and the decoder does not read the row's slot of the data array.
C7_NullSlotNotRead ==
  (stream.mem = "live" /\ chunks[1].mem = "live"
   /\ RowIsNull(call.col, call.row))
    => /\ call.op = "chunk_is_null" => call.count = 1
       /\ call.op = "chunk_value" => call.data_read = -1

\* the last getter encoded a column: the handle and the column index were
\* accepted and the buffer was allocated
Encoded(ops) ==
  /\ bytes.op \in ops
  /\ ~NoColumn(arrow_result, bytes.col_idx)

\* the buffer as its reader sees it: count and total_data_len from the
\* header, the value width of each variant, where the validity bytes start
rd32(data, at) ==
  data[at + 1] + 256 * data[at + 2] + 65536 * data[at + 3]
  + 16777216 * data[at + 4]

ValueWidth ==
  IF bytes.op \in {"int64", "double", "int64_nullable", "double_nullable"}
  THEN 8
  ELSE IF bytes.op \in {"int32", "int32_nullable"} THEN 4
  ELSE 1

ValidityAt ==
  IF bytes.op = "string_nullable" THEN 8 + rd32(bytes.data, 4)
  ELSE 4 + rd32(bytes.data, 0) * ValueWidth

NullableOps ==
  {"int32_nullable", "int64_nullable", "double_nullable", "bool_nullable",
   "string_nullable"}

\* C9: in the buffer of every nullable getter the count is the number of
\* rows and, for each row i below the count, validity[i] is 0 if the source
\* value is null and 1 if it is not.
C9_ValidityIffNull ==
  Encoded(NullableOps)
    => /\ rd32(bytes.data, 0) = arrow_result.row_count
       /\ ~bytes.overflow
       /\ bytes.size = ValidityAt + arrow_result.row_count
       /\ \A i \in 0..(rd32(bytes.data, 0) - 1) :
            bytes.data[ValidityAt + i + 1] =
              IF duckdb_value_is_null(arrow_result, bytes.col_idx, i)
              THEN 0 ELSE 1

\* C9 witness: a string column with a null row, a row with text and a row
\* for which the engine returned no string
C9_Witness ==
  /\ Encoded({"string_nullable"})
  /\ \E i, j, k \in 0..(arrow_result.row_count - 1) :
       /\ duckdb_value_is_null(arrow_result, bytes.col_idx, i)
       /\ ~duckdb_value_is_null(arrow_result, bytes.col_idx, j)
       /\ duckdb_value_varchar(arrow_result, bytes.col_idx, j).ptr
       /\ ~duckdb_value_is_null(arrow_result, bytes.col_idx, k)
       /\ ~duckdb_value_varchar(arrow_result, bytes.col_idx, k).ptr
       /\ bytes.data[ValidityAt + i + 1] = 0
       /\ bytes.data[ValidityAt + j + 1] = 1
       /\ bytes.data[ValidityAt + k + 1] = 1

AllNull(col_idx) ==
  \A i \in 0..(arrow_result.row_count - 1) :
    duckdb_value_is_null(arrow_result, col_idx, i)

\* C10: in the buffer of a nullable numeric getter (int32, int64, double,
\* bool) every null row has all-zero bytes in its value slot and validity
\* 0; an all-null column of length 5 encoded as int32 is exactly count 5,
\* five zero values and five zero validity bytes.
C10_NullPlaceholderZero ==
  /\ Encoded(NullableOps \ {"string_nullable"})
       => \A i \in 0..(arrow_result.row_count - 1) :
            duckdb_value_is_null(arrow_result, bytes.col_idx, i)
              => /\ SubSeq(bytes.data, 4 + i * ValueWidth + 1,
                           4 + (i + 1) * ValueWidth) = Zeros(ValueWidth)
                 /\ bytes.data[ValidityAt + i + 1] = 0
  /\ (/\ Encoded({"int32_nullable"})
      /\ arrow_result.row_count = 5
      /\ AllNull(bytes.col_idx))
       => bytes.data = <<5, 0, 0, 0>> \o Zeros(20) \o Zeros(5)

\* C10 witness: the all-null column of length 5, encoded as int32
C10_Witness ==
  /\ Encoded({"int32_nullable"})
  /\ arrow_result.row_count = 5
  /\ AllNull(bytes.col_idx)
  /\ bytes.size = 29
  /\ bytes.data = <<5, 0, 0, 0>> \o Zeros(25)

DenseNumericOps == {"int32", "int64", "double", "bool"}
NullableNumericOps ==
  {"int32_nullable", "int64_nullable", "double_nullable", "bool_nullable"}

\* value slot i of the returned numeric buffer, as its reader locates it
Slot(i) ==
  SubSeq(bytes.data, 4 + i * ValueWidth + 1, 4 + (i + 1) * ValueWidth)

\* the cell of the encoded column at row i
Cell(i) == arrow_result.cells[bytes.col_idx + 1][i + 1]

\* the bytes the getter bytes.op stores for a non-null cell
StoredValue(cell) ==
  IF bytes.op \in {"int32", "int32_nullable"} THEN int32_t(cell.int64)
  ELSE IF bytes.op \in {"int64", "int64_nullable"} THEN cell.int64
  ELSE IF bytes.op \in {"double", "double_nullable"} THEN cell.double
  ELSE IF cell.boolean THEN <<1>> ELSE <<0>>

\* the dense buffer of the column the nullable getter bytes.op encoded
DenseBuffer ==
  IF bytes.op = "int32_nullable"
  THEN duckdb_mb_arrow_get_column_int32(arrow_result, bytes.col_idx)
  ELSE IF bytes.op = "int64_nullable"
  THEN duckdb_mb_arrow_get_column_int64(arrow_result, bytes.col_idx)
  ELSE IF bytes.op = "double_nullable"
  THEN duckdb_mb_arrow_get_column_double(arrow_result, bytes.col_idx)
  ELSE IF bytes.op = "bool_nullable"
  THEN duckdb_mb_arrow_get_column_bool(arrow_result, bytes.col_idx)
  ELSE duckdb_mb_arrow_get_column_string(arrow_result, bytes.col_idx, TRUE)

\* C11: for a valid column and n > 0 rows the dense numeric buffer is
\* 4 + n*w bytes, the count n at offset 0 and value i at offset 4 + i*w; the
\* nullable buffer is that dense buffer followed by n validity bytes, so
\* 4 + n*w + n bytes with validity[i] at offset 4 + n*w + i.
C11_NumericLayout ==
  LET n == arrow_result.row_count IN
  /\ Encoded(DenseNumericOps \cup NullableNumericOps)
       => /\ rd32(bytes.data, 0) = n
          /\ ~bytes.overflow
          /\ \A k \in 1..bytes.size : bytes.data[k] \in 0..255
          /\ \A i \in 0..(n - 1) :
               Slot(i) = IF Cell(i).is_null THEN Zeros(ValueWidth)
                         ELSE StoredValue(Cell(i))
  /\ Encoded(DenseNumericOps) => bytes.size = 4 + n * ValueWidth
  /\ Encoded(NullableNumericOps)
       => /\ bytes.size = 4 + n * ValueWidth + n
          /\ SubSeq(bytes.data, 1, 4 + n * ValueWidth) = DenseBuffer.data
          /\ \A i \in 0..(n - 1) :
               bytes.data[4 + n * ValueWidth + i + 1] =
                 IF Cell(i).is_null THEN 0 ELSE 1

\* C11 witness: a double column of three rows, null, 1.5, null, encoded by
\* the nullable getter
C11_Witness ==
  /\ Encoded({"double_nullable"})
  /\ arrow_result.row_count = 3
  /\ bytes.size = 31
  /\ Cell(0).is_null /\ Cell(2).is_null
  /\ Slot(1) = <<0, 0, 0, 0, 0, 0, 248, 63>>
  /\ SubSeq(bytes.data, 29, 31) = <<0, 1, 0>>

\* the substrings a scan for NUL terminators finds in a data section;
\* bytes after the last terminator are an unterminated rest
RECURSIVE ScanStrings(_, _)
ScanStrings(data, current) ==
  IF data = <<>> THEN (IF current = <<>> THEN <<>> ELSE <<current>>)
  ELSE IF Head(data) = 0 THEN <<current>> \o ScanStrings(Tail(data), <<>>)
  ELSE ScanStrings(Tail(data), Append(current, Head(data)))

\* the data section of a string buffer, located from its header
DataSection == SubSeq(bytes.data, 9, 8 + rd32(bytes.data, 4))

NoNulls == \A i \in 0..(arrow_result.row_count - 1) : ~Cell(i).is_null

\* C12: for a column of strings without nulls and without embedded NUL,
\* the scan of the data section of the dense string buffer for NUL
\* terminators finds exactly count substrings, the original strings in row
\* order.
C12_StringRoundTrip ==
  (Encoded({"string"}) /\ NoNulls)
    => /\ ~bytes.overflow
       /\ rd32(bytes.data, 0) = arrow_result.row_count
       /\ bytes.size = 8 + rd32(bytes.data, 4)
       /\ ScanStrings(DataSection, <<>>) =
            [i \in 1..arrow_result.row_count |-> Cell(i - 1).varchar.chars]

\* C12 witness: "ab", "", "ab" round-trips
C12_Witness ==
  /\ Encoded({"string"})
  /\ arrow_result.row_count = 3
  /\ Cell(0).varchar.chars = <<97, 98>> /\ Cell(1).varchar.ptr
  /\ Cell(1).varchar.chars = <<>> /\ ~Cell(1).is_null
  /\ Cell(2).varchar.chars = <<97, 98>>
  /\ DataSection = <<97, 98, 0, 0, 97, 98, 0>>

\* C13: the nullable string buffer is count, total_bytes, total_bytes of
\* data and then exactly count validity bytes from offset 8 + total_bytes;
\* its first 8 + total_bytes bytes are the dense buffer of the column when
\* the column has no null; each validity byte is 0 for a null source value
\* and 1 otherwise, whatever the string (an empty non-null string has 1).
C13_StringNullableLayout ==
  Encoded({"string_nullable"})
    => LET count == rd32(bytes.data, 0)
           total_bytes == rd32(bytes.data, 4)
       IN  /\ count = arrow_result.row_count
           /\ bytes.size = 8 + total_bytes + count
           /\ ~bytes.overflow
           /\ \A i \in 0..(count - 1) :
                bytes.data[8 + total_bytes + i + 1] =
                  IF Cell(i).is_null THEN 0 ELSE 1
           /\ NoNulls
                => /\ SubSeq(bytes.data, 1, 8 + total_bytes) = DenseBuffer.data
                   /\ Len(ScanStrings(DataSection, <<>>)) = count

\* C13 witness: a column whose rows are an empty non-null string and "ab"
C13_Witness ==
  /\ Encoded({"string_nullable"})
  /\ arrow_result.row_count = 2
  /\ ~Cell(0).is_null /\ Cell(0).varchar.ptr /\ Cell(0).varchar.chars = <<>>
  /\ Cell(1).varchar.chars = <<97, 98>>
  /\ bytes.data = <<2, 0, 0, 0, 4, 0, 0, 0, 0, 97, 98, 0, 1, 1>>

\* the conditions under which a getter must return the empty buffer
Rejected ==
  \/ arrow_result.handle = NULL
  \/ bytes.col_idx < 0 \/ bytes.col_idx >= arrow_result.column_count
  \/ arrow_result.row_count <= 0

\* C14: every getter, dense or nullable, returns a zero-length buffer,
\* stores nothing and asks the engine result for no row when the handle is
\* NULL, the column index is outside [0, column_count) or there is no row.
C14_EmptyBufferWhenRejected ==
  (bytes.op # "none" /\ Rejected)
    => /\ bytes.size = 0
       /\ bytes.data = <<>>
       /\ ~bytes.overflow
       /\ bytes.rows_read = 0

\* C14 witness: a valid column of a result without rows
C14_Witness ==
  /\ bytes.op = "string_nullable"
  /\ arrow_result.handle # NULL
  /\ bytes.col_idx = 0 /\ arrow_result.column_count = 1
  /\ arrow_result.row_count = 0
  /\ bytes.size = 0

\* an int32_t widened back to the 8 bytes of an int64_t
SignExtend(b) ==
  b \o (IF b[4] >= 128 THEN <<255, 255, 255, 255>> ELSE <<0, 0, 0, 0>>)

\* C15: for every non-null value of a column, value slot i of the buffer
\* gives the value back bit for bit; for the int32 getters, which narrow
\* the 64-bit value, the slot widened again is the source value.
C15_ValueRoundTrip ==
  Encoded(DenseNumericOps \cup NullableNumericOps)
    => \A i \in 0..(arrow_result.row_count - 1) :
         ~Cell(i).is_null
           => IF bytes.op \in {"int32", "int32_nullable"}
              THEN SignExtend(Slot(i)) = Cell(i).int64
              ELSE IF bytes.op \in {"int64", "int64_nullable"}
              THEN Slot(i) = Cell(i).int64
              ELSE IF bytes.op \in {"double", "double_nullable"}
              THEN Slot(i) = Cell(i).double
              ELSE Slot(i) = (IF Cell(i).boolean THEN <<1>> ELSE <<0>>)

\* the last call stored the strings of list_chunk.values
Written == call.op = "append_list_varchar_chunk" /\ call.engine = "written"

C17_BorrowEndsInCall ==
  call.op = "append_list_varchar_chunk"
    => /\ list_chunk.mem # "live"
       /\ (\E i \in 1..Len(list_chunk.child_data) :
             list_chunk.child_data[i].ptr # 0)
            => (list_chunk.appended /\ list_chunk.mem = "destroyed")
       /\ call.engine \in {"reserve_failed", "set_size_failed", "written"}
            => list_chunk.mem = "destroyed"

\* C17 witness: the append of a chunk holding a pointer to a 13-byte
\* string failed in the engine
C17_Witness ==
  /\ Written
  /\ call.failed
  /\ \E i \in 1..Len(list_chunk.child_data) : list_chunk.child_data[i].ptr # 0
  /\ list_chunk.mem = "destroyed"

\* a call that reached duckdb_mb_set_error
Recorded == call.op # "none" /\ call.error # NoError

CreationOps == {"prepare", "appender_create", "config_create"}

\* the handle an operation creates or works on
HandleOf(op) ==
  IF op \in {"prepare", "bind_int"} THEN "statement"
  ELSE IF op \in {"appender_create", "begin_row"} THEN "appender"
  ELSE "config"

\* C19: a creation operation that returned a null handle leaves a message
\* for that failure in the last-error slot or in the error field of a
\* handle the caller still holds.
C19_CreationFailureLeavesMessage ==
  (call.op \in CreationOps /\ call.failed)
    => \/ /\ duckdb_mb_last_error_message # NULL
          /\ duckdb_mb_last_error_message # call.slot_before
       \/ /\ handles[HandleOf(call.op)].mem = "live"
          /\ handles[HandleOf(call.op)].error # ""

\* what the caller can read after an operation: the last-error slot for
\* duckdb_mb_query, the handle's error field for the handle operations
Readable ==
  IF call.op = "query" THEN duckdb_mb_last_error_message
  ELSE handles[HandleOf(call.op)].error

\* C20: after duckdb_mb_query, duckdb_mb_bind_int or duckdb_mb_begin_row
\* failed in the engine, the engine operation was called once and the
\* message the caller reads equals the engine's message, whatever its
\* length (for duckdb_mb_query: when the slot's copy could be allocated);
\* when the engine gave no message the caller does not read the message of
\* an earlier failure.
C20_EngineMessageVerbatim ==
  (call.op \in {"query", "bind_int", "begin_row"} /\ call.engine = "error"
     /\ call.error_stored)
    => /\ call.engine_calls = 1
       /\ call.engine_error # NULL => Readable = call.engine_error
       /\ (call.engine_error = NULL /\ call.op # "query"
             /\ call.field_before # "")
            => Readable # call.field_before

\* the supported set as the classification contract names it
NamedSupportedTypes ==
  {"BOOLEAN", "TINYINT", "SMALLINT", "INTEGER", "BIGINT", "UTINYINT",
   "USMALLINT", "UINTEGER", "UBIGINT", "FLOAT", "DOUBLE", "VARCHAR", "BLOB",
   "DATE", "TIME", "TIME_TZ", "TIMESTAMP", "TIMESTAMP_S", "TIMESTAMP_MS",
   "TIMESTAMP_NS", "INTERVAL", "HUGEINT", "UHUGEINT", "UUID"}

\* duckdb_mb_stream_from_result looked at the columns and no malloc failed
Classified ==
  /\ FromResultCalled
  /\ call.error \notin {"failed to allocate column types",
                        "failed to allocate stream handle"}

\* C21 as stated: a result is accepted iff every column's type is in the
\* named set
C21_AsStated ==
  Classified
    => (call.ret = "stream"
          <=> \A col \in 1..Len(result.types) :
                result.types[col] \in NamedSupportedTypes)

\* C21: a result is accepted iff every column's type is in the named set
\* or is nanosecond time or timestamp with time zone; any other engine type
\* makes classification fail.
C21_SupportedSet ==
  Classified
    => (call.ret = "stream"
          <=> \A col \in 1..Len(result.types) :
                result.types[col]
                  \in NamedSupportedTypes \cup {"TIME_NS", "TIMESTAMP_TZ"})

\* C21 witness: a stream whose second column is nanosecond time or
\* timestamp with time zone
C21_Witness ==
  /\ Classified
  /\ call.ret = "stream"
  /\ result.types \in {<<"INTEGER", "TIME_NS">>, <<"VARCHAR", "TIMESTAMP_TZ">>}

\* C22: a result whose columns are decimal or otherwise supported can be
\* streamed (its decimal values then reach the decoder).
C22_DecimalColumnStreams ==
  (/\ Classified
   /\ \E col \in 1..Len(result.types) : result.types[col] = "DECIMAL"
   /\ \A col \in 1..Len(result.types) :
        result.types[col] \in NamedSupportedTypes \cup {"DECIMAL"})
    => call.ret = "stream"

\* the type table of the stream: one validated type per column
TypeTableValid ==
  /\ Len(column_types.entries) = stream.column_count
  /\ stream.column_count > 0 => column_types.mem = "live"
  /\ \A col \in 1..Len(column_types.entries) :
       column_types.entries[col]
         \in NamedSupportedTypes \cup {"TIME_NS", "TIMESTAMP_TZ"}

\* C23: while a stream is live its type table has exactly column_count
\* entries, all of supported types, and no step between two states with
\* the stream live changes the table or column_count.
C23_TypeTableInvariant ==
  /\ [](stream.mem = "live" => TypeTableValid)
  /\ [][(stream.mem = "live" /\ stream'.mem = "live")
          => /\ column_types' = column_types
             /\ stream'.column_count = stream.column_count]_vars

\* C23 witness: a value of a fetched chunk was decoded and the chunk
\* destroyed under a live stream with two columns
C23_Witness ==
  /\ stream.mem = "live"
  /\ stream.column_count = 2
  /\ call.op = "chunk_destroy"
  /\ chunks[1].mem = "freed"
  /\ delivered > 0

\* C24: the string encoders store no byte outside the buffer they
\* allocated, whether or not the column has null rows.
C24_StringWritesInsideBuffer ==
  Encoded({"string", "string_nullable"}) => ~bytes.overflow

\* the serializers of composite values
SerializerOps ==
  {"bind_list_varchar", "bind_struct_varchar", "bind_map_varchar_varchar",
   "append_list_varchar", "append_struct_varchar",
   "append_map_varchar_varchar"}

\* C25: the list, struct and map serializers store no byte, the
\* terminating NUL included, outside the total_len + 1 bytes they
\* allocated.
C25_SerializersStayInsideBuffer ==
  bytes.op \in SerializerOps => ~bytes.overflow

\* C26: when duckdb_mb_append_list_varchar_chunk was called with an
\* appender and no engine call it made reported failure, it stored the
\* strings, appended the chunk and returned 1.
C26_SucceedsWhenEngineDoes ==
  (/\ call.op = "append_list_varchar_chunk"
   /\ handles.appender.mem = "live"
   /\ ~list_chunk.engine_failed)
    => (call.count = 1 /\ list_chunk.appended)

\* bytes per row of the numeric layouts
RowBytes(op) ==
  IF op = "int32" THEN 4
  ELSE IF op \in {"int64", "double"} THEN 8
  ELSE IF op = "bool" THEN 1
  ELSE IF op = "int32_nullable" THEN 5
  ELSE IF op = "bool_nullable" THEN 2
  ELSE 9

\* C27: for a row count of at least 1 the size a getter passes to the
\* allocator is the mathematical size of its layout (4 + n * w for the
\* numeric layouts, 8 + total_bytes (+ n) for the string layouts), so the
\* loop stores nothing past the allocation.
C27_SizeIsLayoutSize ==
  (bytes.op \in GetterOps /\ arrow_result.row_count >= 1
     /\ "total_data_len" \in DOMAIN arrow_result)
    => LET n == arrow_result.row_count
           total == arrow_result.total_data_len
           validity_bytes == IF bytes.op = "string_nullable" THEN n ELSE 0
       IN  /\ call.ret = "bytes"
           /\ ~bytes.overflow
           /\ IF bytes.op \in {"string", "string_nullable"}
              THEN /\ total[1] < 32768
                   /\ total[1] * 65536 + total[2]
                        <= Int32Max - 8 - validity_bytes
                   /\ bytes.size
                        = 8 + total[1] * 65536 + total[2] + validity_bytes
              ELSE /\ n <= (Int32Max - 4) \div RowBytes(bytes.op)
                   /\ bytes.size = 4 + n * RowBytes(bytes.op)

\* the call was duckdb_mb_query_arrow and the engine reported a failure
ArrowQueryFailed == call.op = "query_arrow" /\ call.engine = "error"

\* C28: duckdb_mb_query_arrow never reads a handle after freeing it, and
\* the message it leaves in the last-error slot after an engine failure is
\* the engine's message (or "duckdb_query failed" when the engine has none).
C28_NoReadAfterFree ==
  ArrowQueryFailed =>
    /\ ~call.use_after_free
    /\ call.error = IF call.engine_error # NULL
                    THEN strncpy_error(call.engine_error)
                    ELSE "duckdb_query failed"

\* C29: duckdb_mb_arrow_schema stays inside its buffer: the write position
\* never exceeds the capacity col_count * 200 + 10, and no byte is written
\* at or past that capacity.
C29_SchemaStaysInsideBuffer ==
  (bytes.op = "schema" /\ call.ret = "json") =>
    /\ bytes.size <= bytes.capacity
    /\ bytes.high <= bytes.capacity
    /\ ~bytes.overflow

\* C30: days_to_date_string yields a month in 1..12 and a day in 1..30 for
\* every day count, and micros_to_timestamp_string yields a month in 1..12,
\* a day in 1..30, an hour in 0..23, a minute in 0..59 and a second in
\* 0..59.
C30_CalendarFieldsInRange ==
  (call.op \in {"append_date", "append_timestamp"} /\ call.engine # "none") =>
    /\ call.text.month \in 1..12
    /\ call.text.day \in 1..30
    /\ call.text.hour \in 0..23
    /\ call.text.minute \in 0..59
    /\ call.text.sec \in 0..59

====
